---- MODULE Spec2Model ----
(***************************************************************************)
(* Workflow orchestration engine: six conversation workflows over one      *)
(* persisted WorkflowState per session (src/workflows/*.py), the           *)
(* persistence facade (src/xano_client.py) and the registry.               *)
(*                                                                         *)
(* Texts are sequences of words (the result of str.split()); a keyword     *)
(* test `kw in text.lower()` is a test for the keyword's words occurring   *)
(* consecutively in the text.  Timestamps are left out of the records:     *)
(* no branch of any workflow reads them.                                   *)
(***************************************************************************)
EXTENDS Integers, Sequences, FiniteSets, TLC

VARIABLES
    template,        \* block["int_template_id"]: key of WORKFLOW_REGISTRY
    specifications,  \* block["specifications"], already decoded
    db,              \* persisted WorkflowState of the session: <<>> or <<state>>
    chat_status,     \* session status kept by the status collaborator (update_ub)
    inbound,         \* content of the last message submitted for the session
    events,          \* effects of the invocation that handled it, in program order
    budget,          \* requests the client may still send
    eval_block,      \* block["eval_instructions"] and block["eval_crit_json"]
    ub,              \* work_summary and grade of the session record (update_ub)
    inflight         \* per invocation under way: <<>> or <<what it read and was sent>>

vars == <<template, specifications, db, chat_status, inbound, events, budget, eval_block, ub,
          inflight>>

-----------------------------------------------------------------------------
(* Bounds of the model *)

MaxQuestions == 2       \* longest Examination question list
MaxTurns == 4           \* messages sent to the workflows that never finish by themselves
MaxClarify == 1         \* FillGaps records that hold a clarifying exchange
MaxIncorrect == 1       \* FillGaps records the evaluator marks not all_correct
MaxExtra == 1           \* messages sent beyond the shortest finishing run
MaxWords == 4           \* longest submission of a single FillGaps turn
MaxCondWords == 3       \* longest finish-condition text of a single Roleplay turn
MaxPrior == 20          \* most turns a session has behind it before a single turn
MaxSessionTurns == 17   \* messages of a whole Reflection session

(* Program constants *)

DefaultMaxFollowUps == 3     \* WorkflowState.max_follow_ups
FillGapsAssignments == 10    \* literal 10 in FillGapsWorkflow.run_workflow_stream

-----------------------------------------------------------------------------
(* Python dict and list helpers *)

EmptyDict == [k \in {} |-> 0]

Get(d, k, dflt) == IF k \in DOMAIN d THEN d[k] ELSE dflt

Put(d, k, v) == [y \in DOMAIN d \cup {k} |-> IF y = k THEN v ELSE d[y]]

Last(s) == s[Len(s)]

SetLast(s, v) == [s EXCEPT ![Len(s)] = v]

\* list[-n:]
Tail_n(s, n) == IF Len(s) <= n THEN s ELSE SubSeq(s, Len(s) - n + 1, Len(s))

\* `phrase in text` at word granularity
Contains(text, phrase) ==
    \E i \in 1..(Len(text) - Len(phrase) + 1) :
        SubSeq(text, i, i + Len(phrase) - 1) = phrase

ContainsAny(text, phrases) == \E p \in phrases : Contains(text, p)

-----------------------------------------------------------------------------
(* The block's evaluation settings and the session record *)

\* a block without evaluation settings
NoEvaluation == [ eval_instructions |-> <<>>, eval_crit_json |-> <<>> ]

\* a session record that holds no report and no grade: <<>> is None, <<v>> is the value v
NewSession == [ work_summary |-> <<>>, grade |-> <<>> ]

\* the invocations that may handle messages of one session at the same time
Invocations == { 1, 2 }

NoneInFlight == [ i \in Invocations |-> <<>> ]

-----------------------------------------------------------------------------
(* Effects of an invocation *)

EvLoad == [op |-> "load"]
EvSave(s) == [op |-> "save", state |-> s]
EvGen(agent, instructions) == [op |-> "gen", agent |-> agent, instructions |-> instructions]
EvStatus(v) == [op |-> "status", value |-> v]
EvReply(text) == [op |-> "reply", text |-> text]

\* a backend that drops what is saved
PersistedMutant(stored, evs) == stored

\* the state the persistence backend holds after the effects `evs`
Persisted(stored, evs) ==
    LET saves == SelectSeq(evs, LAMBDA e : e.op = "save")
    IN  IF saves = <<>> THEN stored ELSE <<Last(saves).state>>

\* the session status after the effects `evs`
StatusAfter(st, evs) ==
    LET ups == SelectSeq(evs, LAMBDA e : e.op = "status")
    IN  IF ups = <<>> THEN st ELSE Last(ups).value

-----------------------------------------------------------------------------
(* base.py *)

\* a cursor that does not start at 0
WorkflowStateMutant(specs) ==
    [ current_question_index |-> 1,
      questions |-> specs,
      answers |-> <<>>,
      follow_up_count |-> 0,
      max_follow_ups |-> DefaultMaxFollowUps,
      status |-> "active",
      custom_data |-> EmptyDict ]

WorkflowState(specs) ==
    [ current_question_index |-> 0,
      questions |-> specs,
      answers |-> <<>>,
      follow_up_count |-> 0,
      max_follow_ups |-> DefaultMaxFollowUps,
      status |-> "active",
      custom_data |-> EmptyDict ]

\* lines 70-82 with the loaded state dropped
LoadOrCreateStateMutant(stored, specs) ==
    [ state |-> WorkflowState(specs),
      events |-> <<EvLoad, EvSave(WorkflowState(specs))>> ]

LoadOrCreateState(stored, specs) ==
    IF stored = <<>>
    THEN [ state |-> WorkflowState(specs),
           events |-> <<EvLoad, EvSave(WorkflowState(specs))>> ]
    ELSE [ state |-> stored[1], events |-> <<EvLoad>> ]

-----------------------------------------------------------------------------
(* examination.py *)

\* a record that carries the index of the first question
ExamRecordMutant(state) ==
    [ question_index |-> 0,
      answer |-> <<>>,
      evaluation |-> EmptyDict ]

ExamRecord(state) ==
    [ question_index |-> state.current_question_index,
      answer |-> <<>>,
      evaluation |-> EmptyDict ]

InterviewerInstructions(state) ==
    IF state.current_question_index >= Len(state.questions)
    THEN [ kind |-> "exam_complete" ]
    ELSE LET last_answer == IF state.answers # <<>> THEN Last(state.answers) ELSE EmptyDict
             evaluation == Get(last_answer, "evaluation", EmptyDict)
             is_followup == Get(evaluation, "needs_clarification", FALSE)
                            /\ state.follow_up_count > 0
         IN  [ kind |-> IF is_followup THEN "follow_up" ELSE "ask_question",
               question |-> state.current_question_index ]

EvaluatorInstructions(state) ==
    [ kind |-> "evaluate", question |-> state.current_question_index ]

\* lines 140-164 and 167-191: the index has moved to the next question
ExamAdvanceMutant(state, evs) ==
    LET s1 == [state EXCEPT !.current_question_index = @ + 1, !.follow_up_count = 0]
    IN  LET s2 == [s1 EXCEPT !.answers = Append(@, ExamRecord(s1))]
        IN  evs \o <<EvSave(s1), EvGen("Interviewer", InterviewerInstructions(s1)),
                     EvSave(s2), EvReply("response")>>

ExamAdvance(state, evs) ==
    LET s1 == [state EXCEPT !.current_question_index = @ + 1, !.follow_up_count = 0]
    IN  IF s1.current_question_index >= Len(s1.questions)
        THEN LET s2 == [s1 EXCEPT !.status = "finished"]
             IN  evs \o <<EvSave(s2), EvStatus("finished"), EvReply("exam finished")>>
        ELSE LET s2 == [s1 EXCEPT !.answers = Append(@, ExamRecord(s1))]
             IN  evs \o <<EvSave(s1), EvGen("Interviewer", InterviewerInstructions(s1)),
                          EvSave(s2), EvReply("response")>>

\* lines 193-199
ExamFollowUpMutant(state, evs) ==
    LET s1 == state
    IN  evs \o <<EvSave(s1), EvGen("Interviewer", InterviewerInstructions(s1)),
                 EvReply("response")>>

ExamFollowUp(state, evs) ==
    LET s1 == [state EXCEPT !.follow_up_count = @ + 1]
    IN  evs \o <<EvSave(s1), EvGen("Interviewer", InterviewerInstructions(s1)),
                 EvReply("response")>>

\* line 167
BudgetExhaustedMutant(state) == state.follow_up_count > state.max_follow_ups

BudgetExhausted(state) == state.follow_up_count >= state.max_follow_ups

\* lines 104-105
ExamAlreadyFinishedMutant(state) == FALSE

ExamAlreadyFinished(state) == state.status = "finished"

\* line 116 taken by every message
NeedsQuestionMutant(state) == TRUE

\* line 116: no question is awaiting its answer
NeedsQuestion(state) ==
    \/ state.answers = <<>>
    \/ Get(Get(Last(state.answers), "evaluation", EmptyDict), "complete", FALSE)

\* ExaminationWorkflow.run_workflow: the effects of one message
ExaminationRunWorkflow(stored, specs, user_message, evaluation) ==
    LET lc == LoadOrCreateState(stored, specs)
        state == lc.state
    IN  IF ExamAlreadyFinished(state)
        THEN lc.events \o <<EvReply("already finished")>>
        ELSE IF state.current_question_index >= Len(state.questions)
        THEN LET s1 == [state EXCEPT !.status = "finished"]
             IN  lc.events \o <<EvSave(s1), EvStatus("finished"), EvReply("exam finished")>>
        ELSE IF NeedsQuestion(state)
        THEN LET s1 == [state EXCEPT !.answers = Append(@, ExamRecord(state)),
                                     !.follow_up_count = 0]
             IN  lc.events \o <<EvGen("Interviewer", InterviewerInstructions(state)),
                                EvSave(s1), EvReply("response")>>
        ELSE LET s1 == [state EXCEPT !.answers =
                            SetLast(@, [Last(@) EXCEPT !.answer = user_message])]
                 s2 == [s1 EXCEPT !.answers =
                            SetLast(@, [Last(@) EXCEPT !.evaluation = evaluation])]
                 evs == lc.events \o <<EvGen("Evaluator", EvaluatorInstructions(s1))>>
             IN  IF evaluation.complete
                 THEN ExamAdvance(s2, evs)
                 ELSE IF BudgetExhausted(s2)
                      THEN ExamAdvance(s2, evs)
                      ELSE ExamFollowUp(s2, evs)

-----------------------------------------------------------------------------
(* Text helpers shared by the classifiers *)

\* str.lower() on the words of the model's vocabulary
LowerWord(w) ==
    CASE w = "WHY" -> "why"
      [] w = "OK" -> "ok"
      [] w = "Finished" -> "finished"
      [] OTHER -> w

Lower(text) == [i \in 1..Len(text) |-> LowerWord(text[i])]

-----------------------------------------------------------------------------
(* fill_gaps.py *)

GapsQuestionIndicators ==
    { <<"?">>, <<"what">>, <<"how">>, <<"why">>, <<"could", "you">>, <<"can", "you">>,
      <<"explain">>, <<"help">>, <<"don't", "understand">>, <<"unclear">>, <<"confused">> }

ShortResponseIndicators ==
    { <<"ok">>, <<"okay">>, <<"thanks">>, <<"got", "it">>, <<"understand">>,
      <<"yes">>, <<"no">>, <<"wait">> }

\* lines 209-210
GapsIsQuestion(student_message) ==
    ContainsAny(Lower(student_message), GapsQuestionIndicators)

\* lines 212-213
GapsIsShortResponseMutant(student_message) ==
    Len(student_message) <= 3

GapsIsShortResponse(student_message) ==
    /\ Len(student_message) <= 3
    /\ ContainsAny(Lower(student_message), ShortResponseIndicators)

GapsRecord(state, full_response) ==
    [ assignment_index |-> state.current_question_index,
      assignment |-> full_response,
      answer |-> <<>>,
      graded |-> FALSE,
      waiting_for_answer |-> TRUE,
      user_message |-> <<>>,
      tutor_response |-> <<>> ]

\* create_tutor_agent.agent_instructions: which instruction text the tutor gets
GapsTutorInstructions(state) ==
    LET last_answer == IF state.answers # <<>> THEN Last(state.answers) ELSE EmptyDict
    IN  IF state.current_question_index >= FillGapsAssignments
        THEN [ kind |-> "completed_all" ]
        ELSE IF Get(last_answer, "waiting_for_answer", FALSE)
        THEN IF GapsIsQuestion(Get(last_answer, "user_message", <<>>))
             THEN [ kind |-> "answer_question" ]
             ELSE [ kind |-> "ask_full_answer" ]
        ELSE IF last_answer # EmptyDict /\ Get(last_answer, "graded", FALSE)
        THEN [ kind |-> "feedback_and_next", number |-> state.current_question_index + 1 ]
        ELSE IF last_answer # EmptyDict
        THEN [ kind |-> "wait_for_answer" ]
        ELSE [ kind |-> "first_assignment" ]

\* lines 194 and 245
GapsReachedCapMutant(state) == state.current_question_index > FillGapsAssignments

GapsReachedCap(state) == state.current_question_index >= FillGapsAssignments

\* the tutor is run before the state is read and twice more after it
GapsClarifyMutant(state, evs, user_message, full_response) ==
    <<EvGen("FillGapsTutor", GapsTutorInstructions(state))>> \o evs
    \o <<EvGen("FillGapsTutor", GapsTutorInstructions(state)),
         EvGen("FillGapsTutor", GapsTutorInstructions(state)), EvReply("stream"), EvSave(state)>>

\* lines 215-230: a clarifying question or a short response is answered, not scored
GapsClarify(state, evs, user_message, full_response) ==
    LET s1 == [state EXCEPT !.answers =
                   SetLast(@, [Last(@) EXCEPT !.user_message = user_message])]
        s2 == [s1 EXCEPT !.answers =
                   SetLast(@, [Last(@) EXCEPT !.tutor_response = full_response])]
    IN  evs \o <<EvGen("FillGapsTutor", GapsTutorInstructions(s1)), EvReply("stream"),
                 EvSave(s2)>>

\* lines 232-277: a full answer is evaluated and the next assignment generated
GapsGrade(state, evs, user_message, evaluation, full_response) ==
    LET s1 == [state EXCEPT !.answers =
                   SetLast(@, [Last(@) EXCEPT !.answer = user_message,
                                              !.waiting_for_answer = FALSE])]
        graded == [r \in DOMAIN Last(s1.answers) \cup {"evaluation"} |->
                       IF r = "evaluation" THEN evaluation
                       ELSE IF r = "graded" THEN TRUE ELSE Last(s1.answers)[r]]
        s2 == [s1 EXCEPT !.answers = SetLast(@, graded),
                         !.current_question_index = @ + 1]
        evs1 == evs \o <<EvGen("GapsEvaluator", [kind |-> "evaluate"])>>
    IN  IF GapsReachedCap(s2)
        THEN LET s3 == [s2 EXCEPT !.status = "finished"]
             IN  evs1 \o <<EvSave(s3), EvStatus("finished"), EvReply("feedback, finished")>>
        ELSE LET s3 == [s2 EXCEPT !.answers = Append(@, GapsRecord(s2, full_response))]
             IN  evs1 \o <<EvSave(s2), EvGen("FillGapsTutor", GapsTutorInstructions(s2)),
                           EvReply("stream"), EvSave(s3)>>

\* lines 190-192
GapsAlreadyFinished(state) == state.status = "finished"

\* FillGapsWorkflow.run_workflow_stream: the effects of one message
FillGapsRunWorkflowStream(stored, specs, user_message, evaluation, full_response) ==
    LET lc == LoadOrCreateState(stored, specs)
        state == lc.state
        last_answer == IF state.answers # <<>> THEN Last(state.answers) ELSE EmptyDict
    IN  IF GapsAlreadyFinished(state)
        THEN lc.events \o <<EvReply("already finished")>>
        ELSE IF GapsReachedCap(state)
        THEN LET s1 == [state EXCEPT !.status = "finished"]
             IN  lc.events \o <<EvSave(s1), EvStatus("finished"), EvReply("test finished")>>
        ELSE IF last_answer # EmptyDict /\ Get(last_answer, "waiting_for_answer", FALSE)
        THEN IF GapsIsQuestion(user_message) \/ GapsIsShortResponse(user_message)
             THEN GapsClarify(state, lc.events, user_message, full_response)
             ELSE GapsGrade(state, lc.events, user_message, evaluation, full_response)
        ELSE LET s1 == [state EXCEPT !.answers = Append(@, GapsRecord(state, full_response))]
             IN  lc.events \o <<EvGen("FillGapsTutor", GapsTutorInstructions(state)),
                                EvReply("stream"), EvSave(s1)>>

-----------------------------------------------------------------------------
(* roleplay.py.  Ukrainian words are written in Latin transliteration. *)

\* int() on the numerals of the model's vocabulary
Numerals == { "0", "2", "3", "4", "5", "7", "15", "20" }

IntOf(w) ==
    CASE w = "0" -> 0 [] w = "2" -> 2 [] w = "3" -> 3 [] w = "4" -> 4 [] w = "5" -> 5
      [] w = "7" -> 7 [] w = "15" -> 15 [] w = "20" -> 20

\* [–\-\s]* : dashes standing as words of their own between the number and the unit
DashWords == { "-" }

MinuteUnits == { "khvylyn", "khvylyny" }            \* words matched by `хвилин`
CountUnits == { "turn", "turns", "exchange", "exchanges" }

\* the match of (\d+)[–\-\s]*(хвилин|turns?|exchanges?) that starts at word i
UnitAfter(text, i) ==
    LET rest == { j \in (i + 1)..Len(text) :
                     /\ text[j] \in MinuteUnits \cup CountUnits
                     /\ \A k \in (i + 1)..(j - 1) : text[k] \in DashWords }
    IN  IF text[i] \in Numerals /\ rest # {}
        THEN <<text[CHOOSE j \in rest : TRUE]>>
        ELSE <<>>

\* re.search: the leftmost match
TurnMatch(text) ==
    LET starts == { i \in 1..Len(text) : UnitAfter(text, i) # <<>> }
    IN  IF starts = {} THEN <<>>
        ELSE LET i == CHOOSE k \in starts : \A l \in starts : k <= l
             IN  <<[number |-> IntOf(text[i]), unit |-> UnitAfter(text, i)[1]]>>

Max(a, b) == IF a >= b THEN a ELSE b

DefaultMaxTurns == 20

\* lines 147-154
MaxTurnsOfMutant(conditions) ==
    LET turn_match == TurnMatch(Lower(conditions))
    IN  IF turn_match = <<>> THEN DefaultMaxTurns
        ELSE turn_match[1].number + 1

MaxTurnsOf(conditions) ==
    LET turn_match == TurnMatch(Lower(conditions))
    IN  IF turn_match = <<>> THEN DefaultMaxTurns
        ELSE IF turn_match[1].unit \in MinuteUnits
             THEN Max(turn_match[1].number * 2, 10)
             ELSE turn_match[1].number

CompletionPhrases ==
    { <<"zaversheno">>, <<"pidsumok">>, <<"dyakuyu", "za", "sesiyu">>, <<"tse", "vse">>,
      <<"completed">>, <<"finished">>, <<"that", "concludes">>, <<"thank", "you", "for">>,
      <<"na", "tsomu", "zavershuyemo">>, <<"tse", "zavershuye", "nashu", "rozmovu">> }

ConfirmationWords ==
    { <<"zrozumiv">>, <<"zrozumila">>, <<"dyakuyu">>, <<"tak">>, <<"hotov">>, <<"hotova">>,
      <<"finished">>, <<"understood">> }

ProgressKeywords ==
    { <<"chudovo">>, <<"dobre">>, <<"pravylno">>, <<"zghoden">>, <<"zrozumiv">>,
      <<"nastupnyi">>, <<"teper">>, <<"perekhodymo">>, <<"good">>, <<"great">>,
      <<"correct">>, <<"next">> }

\* resp[:50]: the words of a response that lie within its first 50 characters
PrefixWords == 2

Prefix50(resp) == SubSeq(resp, 1, IF Len(resp) < PrefixWords THEN Len(resp) ELSE PrefixWords)

MinTurns == 3

\* line 144
TooEarlyMutant(turn_count) == turn_count < MinTurns - 1

TooEarly(turn_count) == turn_count < MinTurns

\* line 156
ReachedMaxMutant(turn_count, max_turns) == turn_count > max_turns

ReachedMax(turn_count, max_turns) == turn_count >= max_turns

\* RoleplayWorkflow._check_finish_conditions
CheckFinishConditions(state, conditions, last_response) ==
    LET turn_count == Len(state.answers)
        conditions_lower == Lower(conditions)
        last_answers == Tail_n(state.answers, 3)
    IN  IF conditions = <<>> THEN FALSE
        ELSE IF TooEarly(turn_count) THEN FALSE
        ELSE IF ReachedMax(turn_count, MaxTurnsOf(conditions)) THEN TRUE
        ELSE IF ContainsAny(Lower(last_response), CompletionPhrases) THEN TRUE
        ELSE IF /\ ContainsAny(conditions_lower, { <<"finished">>, <<"phrase">> })
                /\ Contains(conditions_lower, <<"student">>)
                /\ ContainsAny(conditions_lower, { <<"pidtverd">>, <<"skazh">>, <<"fraz">> })
                /\ \E i \in 1..Len(last_answers) :
                       ContainsAny(Lower(Get(last_answers[i], "user_message", <<>>)),
                                   ConfirmationWords)
        THEN TRUE
        ELSE IF /\ turn_count >= 5
                /\ Cardinality({ Prefix50(Get(last_answers[i], "agent_response", <<>>)) :
                                    i \in 1..Len(last_answers) }) <= 1
        THEN TRUE
        ELSE FALSE

\* RoleplayWorkflow._update_progress_tracking
UpdateProgressTracking(state, user_message, agent_response) ==
    IF ContainsAny(Lower(agent_response), ProgressKeywords)
    THEN LET progress_notes == Append(Get(state.custom_data, "progress_notes", <<>>),
                                      [turn |-> Len(state.answers)])
         IN  [state EXCEPT !.custom_data = Put(@, "progress_notes", Tail_n(progress_notes, 10))]
    ELSE state

\* specifications[0] if specifications else {}
FirstSpec(specs) == IF specs # <<>> THEN specs[1] ELSE EmptyDict

\* lines 86-88
RoleplayAlreadyFinished(state) == state.status = "finished"

\* lines 118-124
RoleplayPersistMutant(state, evs, should_finish) ==
    IF should_finish
    THEN evs \o <<EvStatus("finished"), EvSave([state EXCEPT !.status = "finished"])>>
    ELSE evs \o <<EvSave(state)>>

RoleplayPersist(state, evs, should_finish) ==
    IF should_finish
    THEN evs \o <<EvSave([state EXCEPT !.status = "finished"]), EvStatus("finished")>>
    ELSE evs \o <<EvSave(state)>>

\* RoleplayWorkflow.run_workflow_stream: the effects of one message
RoleplayRunWorkflowStream(stored, specs, user_message, full_response) ==
    LET lc == LoadOrCreateState(stored, specs)
        state == lc.state
    IN  IF RoleplayAlreadyFinished(state)
        THEN lc.events \o <<EvReply("already finished")>>
        ELSE LET s0 == IF Get(state.custom_data, "progress_notes", <<>>) = <<>>
                       THEN [state EXCEPT !.custom_data = Put(@, "progress_notes", <<>>)]
                       ELSE state
                 s1 == [s0 EXCEPT !.answers =
                            Append(@, [ user_message |-> user_message,
                                        agent_response |-> full_response,
                                        turn |-> Len(s0.answers) + 1 ])]
                 s2 == UpdateProgressTracking(s1, user_message, full_response)
                 finish_conditions ==
                     Get(FirstSpec(specs), "finish_dialogue_conditions", <<>>)
                 should_finish == CheckFinishConditions(s2, finish_conditions, full_response)
             IN  RoleplayPersist(s2,
                     lc.events \o <<EvGen("RoleplayAgent", [kind |-> "roleplay",
                                                            turn |-> Len(s0.answers) + 1]),
                                    EvReply("stream")>>,
                     should_finish)

-----------------------------------------------------------------------------
(* custom.py *)

\* lines 48-49
CustomAlreadyFinished(state) == state.status = "finished"

\* CustomWorkflow.run_workflow: the effects of one message
CustomRunWorkflow(stored, specs, user_message, response) ==
    LET lc == LoadOrCreateState(stored, specs)
        state == lc.state
    IN  IF CustomAlreadyFinished(state)
        THEN lc.events \o <<EvReply("already finished")>>
        ELSE LET s1 == [state EXCEPT !.answers =
                            Append(@, [ user_message |-> user_message,
                                        assistant_response |-> response ])]
             IN  lc.events \o <<EvGen("CustomAssistant", [kind |-> "custom",
                                                          history |-> Len(state.answers)]),
                                EvSave(s1), EvReply("response")>>

-----------------------------------------------------------------------------
(* reflection.py *)

StopPhrases == { <<"zavershuy">>, <<"zakinchy">> }

\* `'10' in timebox`: the numerals of the vocabulary that contain the digits
HasDigits(timebox, digits) ==
    \E i \in 1..Len(timebox) :
        \/ timebox[i] = digits
        \/ digits = "10" /\ timebox[i] \in { "100", "210" }
        \/ digits = "20" /\ timebox[i] \in { "120", "200" }

\* a timebox that never expires
TimeboxExpiredMutant(timebox, turns) == FALSE

\* lines 291-297
TimeboxExpired(timebox, turns) ==
    IF HasDigits(timebox, "10") /\ turns >= 8 THEN TRUE
    ELSE IF HasDigits(timebox, "20") /\ turns >= 15 THEN TRUE
    ELSE FALSE

\* the phrase that ends a phase, lines 256, 269, 282
PhaseCompletedMutant(phase, coach_response) ==
    LET text == Lower(coach_response)
    IN  CASE phase = "aspiration" ->
                 Contains(text, <<"pereydemo", "do">>) /\ Contains(text, <<"nastupni", "kroky">>)
          [] phase = "strengths" ->
                 Contains(text, <<"nastupni", "kroky">>)
                 \/ Contains(text, <<"vyznachymo", "konkretni">>)
          [] phase = "feed_forward" ->
                 Contains(text, <<"pidsumok">>) \/ Contains(text, <<"produktyvnu", "sesiyu">>)
          [] OTHER -> FALSE

PhaseCompleted(phase, coach_response) ==
    LET text == Lower(coach_response)
    IN  CASE phase = "aspiration" ->
                 Contains(text, <<"pereydemo", "do">>) /\ Contains(text, <<"sylnykh", "storin">>)
          [] phase = "strengths" ->
                 Contains(text, <<"nastupni", "kroky">>)
                 \/ Contains(text, <<"vyznachymo", "konkretni">>)
          [] phase = "feed_forward" ->
                 Contains(text, <<"pidsumok">>) \/ Contains(text, <<"produktyvnu", "sesiyu">>)
          [] OTHER -> FALSE

\* the phase assigned when a phase ends, lines 258, 271, 284
NextPhaseMutant(phase) ==
    CASE phase = "aspiration" -> "strengths"
      [] phase = "strengths" -> "aspiration"
      [] phase = "feed_forward" -> "summary"
      [] OTHER -> phase

NextPhase(phase) ==
    CASE phase = "aspiration" -> "strengths"
      [] phase = "strengths" -> "feed_forward"
      [] phase = "feed_forward" -> "summary"
      [] OTHER -> phase

\* lines 249-286: the collected data of the phase and the move out of it
CollectPhaseData(state, phase, user_message, coach_response) ==
    LET data0 == Get(state.custom_data, phase, EmptyDict)
        data1 == IF user_message # <<>>
                 THEN Put(data0, "responses",
                          Append(Get(data0, "responses", <<>>), user_message))
                 ELSE data0
        done == PhaseCompleted(phase, coach_response)
        data2 == IF done THEN Put(data1, "completed", TRUE) ELSE data1
        cd1 == IF done THEN Put(state.custom_data, "phase", NextPhase(phase))
               ELSE state.custom_data
    IN  [state EXCEPT !.custom_data = Put(cd1, phase, data2)]

\* line 299
StopRequestedMutant(user_message) == FALSE

StopRequested(user_message) == ContainsAny(Lower(user_message), StopPhrases)

\* ReflectionWorkflow._update_phase_and_data
UpdatePhaseAndData(state, user_message, coach_response, specs) ==
    LET phase == Get(state.custom_data, "phase", "aspiration")
        s1 == IF phase \in { "aspiration", "strengths", "feed_forward" }
              THEN CollectPhaseData(state, phase, user_message, coach_response)
              ELSE IF phase = "summary"
              THEN [state EXCEPT !.status = "finished"]
              ELSE state
        timebox == Get(specs, "timebox", <<>>)
        s2 == IF TimeboxExpired(timebox, Len(s1.answers))
                 /\ phase \notin { "summary", "finished" }
              THEN [s1 EXCEPT !.custom_data = Put(@, "phase", "summary")]
              ELSE s1
    IN  IF StopRequested(user_message)
        THEN [s2 EXCEPT !.custom_data = Put(@, "phase", "summary")]
        ELSE s2

\* create_coach_agent.agent_instructions: which instruction text the coach gets
CoachInstructions(state) ==
    LET phase == Get(state.custom_data, "phase", "aspiration")
    IN  IF Len(state.answers) = 0 THEN [ kind |-> "opening" ]
        ELSE IF phase \in { "aspiration", "strengths", "feed_forward", "summary" }
        THEN [ kind |-> phase ]
        ELSE [ kind |-> "session_complete" ]

\* lines 209-211
ReflectionAlreadyFinishedMutant(state) == FALSE

ReflectionAlreadyFinished(state) == state.status = "finished"

\* ReflectionWorkflow.run_workflow_stream: the effects of one message
ReflectionRunWorkflowStream(stored, specs, user_message, full_response) ==
    LET lc == LoadOrCreateState(stored, specs)
        state == lc.state
    IN  IF ReflectionAlreadyFinished(state)
        THEN lc.events \o <<EvReply("already finished")>>
        ELSE LET s0 == IF Get(state.custom_data, "phase", "") = ""
                       THEN [state EXCEPT !.custom_data =
                                Put(Put(Put(Put(@, "phase", "aspiration"),
                                    "aspiration", EmptyDict), "strengths", EmptyDict),
                                    "feed_forward", EmptyDict)]
                       ELSE state
                 s1 == [s0 EXCEPT !.answers =
                            Append(@, [ user_message |-> user_message,
                                        coach_response |-> full_response,
                                        phase |-> Get(s0.custom_data, "phase", "aspiration") ])]
                 s2 == UpdatePhaseAndData(s1, user_message, full_response, FirstSpec(specs))
                 evs == lc.events \o <<EvGen("ReflectionCoach", CoachInstructions(s0)),
                                       EvReply("stream"), EvSave(s2)>>
             IN  IF s2.status = "finished"
                 THEN evs \o <<EvStatus("finished")>>
                 ELSE evs

-----------------------------------------------------------------------------
(* analogous.py *)

AnalogousQuestionIndicators ==
    GapsQuestionIndicators \cup
    { <<"mean">>, <<"clarify">>, <<"ne", "rozumiyu">>, <<"poyasny">>, <<"shcho">>,
      <<"yak">>, <<"chomu">>, <<"dopomozhy">>, <<"rozkazhy">>, <<"ne", "zrozumiv">>,
      <<"ne", "zrozumila">>, <<"sho">>, <<"dopomozhit">>, <<"pidkazhy">> }

AnalogousIsQuestion(student_message) ==
    ContainsAny(Lower(student_message), AnalogousQuestionIndicators)

\* answer_length < assignment_length * 0.3
SeemsIncomplete(student_message, assignment) ==
    10 * Len(student_message) < 3 * Len(assignment)

\* lines 350-359 and 372-381
AnalogousRecordMutant(state, topic, response) ==
    [ assignment_index |-> state.current_question_index,
      topic |-> topic,
      assignment |-> response,
      answer |-> <<>>,
      graded |-> FALSE,
      waiting_for_answer |-> FALSE,
      user_message |-> <<>>,
      tutor_response |-> <<>> ]

AnalogousRecord(state, topic, response) ==
    [ assignment_index |-> state.current_question_index,
      topic |-> topic,
      assignment |-> response,
      answer |-> <<>>,
      graded |-> FALSE,
      waiting_for_answer |-> TRUE,
      user_message |-> <<>>,
      tutor_response |-> <<>> ]

\* create_tutor_agent.agent_instructions: which instruction text the tutor gets
AnalogousTutorInstructions(state) ==
    LET topic == IF state.answers # <<>> THEN Get(state.answers[1], "topic", <<>>) ELSE <<>>
        last_answer == IF state.answers # <<>> THEN Last(state.answers) ELSE EmptyDict
        student_message == Get(last_answer, "user_message", <<>>)
    IN  IF Get(last_answer, "waiting_for_answer", FALSE)
        THEN IF AnalogousIsQuestion(student_message)
                \/ SeemsIncomplete(student_message, Get(last_answer, "assignment", <<>>))
             THEN [ kind |-> "help_with_assignment" ]
             ELSE [ kind |-> "ask_full_answer" ]
        ELSE IF last_answer # EmptyDict /\ Get(last_answer, "graded", FALSE)
        THEN [ kind |-> "feedback_and_next" ]
        ELSE IF last_answer # EmptyDict
        THEN [ kind |-> "wait_for_answer" ]
        ELSE IF topic = <<>>
        THEN [ kind |-> "ask_topic" ]
        ELSE [ kind |-> "first_assignment" ]

SetField(state, field, value) ==
    [state EXCEPT !.answers = SetLast(@, Put(Last(@), field, value))]

\* line 274
IsTopicClarificationMutant(topic) == Len(topic) <= 2

IsTopicClarification(topic) == Len(topic) <= 2 \/ Contains(topic, <<"?">>)

\* lines 242-243
AnalogousAlreadyFinished(state) == state.status = "finished"

\* AnalogousWorkflow.run_workflow: the effects of one message
AnalogousRunWorkflow(stored, specs, user_message, evaluation, response) ==
    LET lc == LoadOrCreateState(stored, specs)
        state == lc.state
        last_answer == IF state.answers # <<>> THEN Last(state.answers) ELSE EmptyDict
        Tutor(s) == EvGen("AnalogousTutor", AnalogousTutorInstructions(s))
    IN  IF AnalogousAlreadyFinished(state)
        THEN lc.events \o <<EvReply("already finished")>>
        ELSE IF Len(state.answers) = 0
        THEN LET rec == [ assignment_index |-> 0, topic |-> <<>>, assignment |-> <<>>,
                          answer |-> <<>>, graded |-> FALSE, waiting_for_topic |-> TRUE,
                          user_message |-> <<>>, tutor_response |-> <<>> ]
                 s1 == [state EXCEPT !.answers = Append(@, rec)]
                 s2 == SetField(s1, "assignment", response)
             IN  lc.events \o <<Tutor(s1), EvSave(s2), EvReply("response")>>
        ELSE IF Get(last_answer, "waiting_for_topic", FALSE)
        THEN IF IsTopicClarification(user_message)
             THEN LET s1 == SetField(state, "user_message", user_message)
                      s2 == SetField(s1, "tutor_response", response)
                  IN  lc.events \o <<Tutor(s1), EvSave(s2), EvReply("response")>>
             ELSE LET s1 == SetField(SetField(SetField(state, "topic", user_message),
                                 "waiting_for_topic", FALSE), "waiting_for_answer", TRUE)
                      s2 == SetField(s1, "assignment", response)
                  IN  lc.events \o <<Tutor(s1), EvSave(s2), EvReply("response")>>
        ELSE IF last_answer # EmptyDict /\ Get(last_answer, "waiting_for_answer", FALSE)
        THEN IF \/ AnalogousIsQuestion(user_message)
                \/ GapsIsShortResponse(user_message)
                \/ SeemsIncomplete(user_message, Get(last_answer, "assignment", <<>>))
             THEN LET s1 == SetField(state, "user_message", user_message)
                      s2 == SetField(s1, "tutor_response", response)
                  IN  lc.events \o <<Tutor(s1), EvSave(s2), EvReply("response")>>
             ELSE LET s1 == SetField(SetField(state, "answer", user_message),
                                     "waiting_for_answer", FALSE)
                      s2 == [SetField(SetField(s1, "evaluation", evaluation), "graded", TRUE)
                                EXCEPT !.current_question_index = @ + 1]
                      s3 == [s2 EXCEPT !.answers = Append(@,
                                AnalogousRecord(s2, Get(s2.answers[1], "topic", <<>>), response))]
                  IN  lc.events \o <<EvGen("AnalogousEvaluator", [kind |-> "evaluate"]),
                                     EvSave(s2), Tutor(s2), EvSave(s3), EvReply("response")>>
        ELSE LET s1 == [state EXCEPT !.answers = Append(@,
                            AnalogousRecord(state, Get(state.answers[1], "topic", <<>>), response))]
             IN  lc.events \o <<Tutor(state), EvSave(s1), EvReply("response")>>

-----------------------------------------------------------------------------
(* Inputs of a whole session *)

ExamQuestions(n) == [i \in 1..n |-> [question |-> i, key_concepts |-> i]]

\* EvalOutput of the Examination evaluator
ExamVerdicts ==
    [ complete : BOOLEAN, missing_concepts : {<<>>}, needs_clarification : BOOLEAN ]

ExamMessages == { <<"x">>, <<"y", "z">> }

\* an assignment text of ten words
Assignment == [i \in 1..10 |-> "w"]

GapsSpecs == { <<>>, <<[ topic |-> "gaps" ]>> }

GapsMessages == { <<"WHY", "?">>, <<"ok">>, <<"x">> }

\* EvalOutput of the FillGaps evaluator
GapsVerdicts == [ all_correct : BOOLEAN, errors : {<<>>}, feedback : {<<"fb">>} ]

RoleplaySpecs ==
    { <<>> } \cup
    { <<[ finish_dialogue_conditions |-> c ]>> :
         c \in { <<>>, <<"3", "turns">>, <<"after", "4", "-", "exchanges">>,
                 <<"student", "skazh", "Finished">> } }

RoleplayMessages == { <<"hello">>, <<"tak">> }

RoleplayResponses == { <<"a", "b", "c">>, <<"good", "b">>, <<"session", "completed">> }

CustomSpecs == { <<>>, <<[ topic |-> "custom" ]>> }

CustomMessages == { <<"x">>, <<"y", "z">> }

CustomResponses == { <<"a">> }

ReflectionSpecs ==
    { <<>>, <<[ timebox |-> <<"10", "khvylyn">> ]>>, <<[ timebox |-> <<"20", "khvylyn">> ]>> }

ReflectionMessages == { <<"x">>, <<"zavershuy">> }

ReflectionResponses ==
    { <<"a">>, <<"pereydemo", "do", "sylnykh", "storin">>, <<"nastupni", "kroky">>,
      <<"pidsumok">> }

AnalogousSpecs == { <<>>, <<[ learning_goal |-> "tenses" ]>> }

AnalogousMessages ==
    { <<"ok">>, <<"why", "?">>, <<"past", "simple", "tense">>,
      <<"maybe", "past", "tense", "?">> }

\* EvalOutput of the Analogous evaluator
AnalogousVerdicts == [ correct : BOOLEAN, errors : {<<>>}, feedback : {<<"fb">>} ]

-----------------------------------------------------------------------------
(* Actions: one per workflow, each the whole handling of one message *)

Commit(user_message, evs) ==
    /\ inbound' = user_message
    /\ db' = Persisted(db, evs)
    /\ chat_status' = StatusAfter(chat_status, evs)
    /\ events' = evs
    /\ budget' = budget - 1
    /\ UNCHANGED <<template, specifications, eval_block, ub, inflight>>

ExaminationMessage(user_message, evaluation) ==
    /\ template = 12
    /\ budget > 0
    /\ Commit(user_message, ExaminationRunWorkflow(db, specifications, user_message, evaluation))

CustomMessage(user_message, response) ==
    /\ template = 25
    /\ budget > 0
    /\ Commit(user_message, CustomRunWorkflow(db, specifications, user_message, response))

Clarified(rec) == Get(rec, "user_message", <<>>) # <<>>

Incorrect(rec) == ~Get(Get(rec, "evaluation", [all_correct |-> TRUE]), "all_correct", TRUE)

\* the records of the stored state that hold a clarifying exchange
ClarifiedCount ==
    IF db = <<>> THEN 0
    ELSE Cardinality({ i \in 1..Len(db[1].answers) : Clarified(db[1].answers[i]) })

\* the records of the stored state that the evaluator marked not all_correct
IncorrectCount ==
    IF db = <<>> THEN 0
    ELSE Cardinality({ i \in 1..Len(db[1].answers) : Incorrect(db[1].answers[i]) })

\* the input stays within MaxClarify and MaxIncorrect
GapsWithinBounds(user_message, evaluation) ==
    /\ \/ ~(GapsIsQuestion(user_message) \/ GapsIsShortResponse(user_message))
       \/ ClarifiedCount < MaxClarify
       \/ db # <<>> /\ db[1].answers # <<>> /\ Clarified(Last(db[1].answers))
    /\ evaluation.all_correct \/ IncorrectCount < MaxIncorrect

FillGapsMessage(user_message, evaluation, full_response) ==
    /\ template = 26
    /\ budget > 0
    /\ GapsWithinBounds(user_message, evaluation)
    /\ Commit(user_message, FillGapsRunWorkflowStream(db, specifications, user_message, evaluation,
                                        full_response))

RoleplayMessage(user_message, full_response) ==
    /\ template = 27
    /\ budget > 0
    /\ Commit(user_message, RoleplayRunWorkflowStream(db, specifications, user_message, full_response))

ReflectionMessage(user_message, full_response) ==
    /\ template = 28
    /\ budget > 0
    /\ Commit(user_message, ReflectionRunWorkflowStream(db, specifications, user_message, full_response))

AnalogousMessage(user_message, evaluation, response) ==
    /\ template = 29
    /\ budget > 0
    /\ Commit(user_message, AnalogousRunWorkflow(db, specifications, user_message, evaluation, response))

-----------------------------------------------------------------------------
(* Whole sessions, from the first message on *)

\* messages of the longest Examination session, and MaxExtra more
ExamBudget(n) == 1 + n * (DefaultMaxFollowUps + 1) + MaxExtra

\* messages of the shortest FillGaps session, and MaxExtra more
GapsBudget == 1 + FillGapsAssignments + MaxExtra

Init ==
    /\ template \in { 12, 25, 26, 27, 28, 29 }
    /\ \/ /\ template = 12
          /\ \E n \in 0..MaxQuestions :
                /\ specifications = ExamQuestions(n)
                /\ budget = ExamBudget(n)
       \/ /\ template = 25
          /\ specifications \in CustomSpecs
          /\ budget = MaxTurns
       \/ /\ template = 26
          /\ specifications \in GapsSpecs
          /\ budget = GapsBudget
       \/ /\ template = 27
          /\ specifications \in RoleplaySpecs
          /\ budget = MaxTurns
       \/ /\ template = 28
          /\ specifications \in ReflectionSpecs
          /\ budget = MaxTurns
       \/ /\ template = 29
          /\ specifications \in AnalogousSpecs
          /\ budget = MaxTurns
    /\ db = <<>>
    /\ chat_status = "started"
    /\ inbound = <<>>
    /\ events = <<>>
    /\ eval_block = NoEvaluation
    /\ ub = NewSession
    /\ inflight = NoneInFlight

Next ==
    \/ \E m \in ExamMessages, v \in ExamVerdicts : ExaminationMessage(m, v)
    \/ \E m \in CustomMessages, r \in CustomResponses : CustomMessage(m, r)
    \/ \E m \in GapsMessages, v \in GapsVerdicts : FillGapsMessage(m, v, Assignment)
    \/ \E m \in RoleplayMessages, r \in RoleplayResponses : RoleplayMessage(m, r)
    \/ \E m \in ReflectionMessages, r \in ReflectionResponses : ReflectionMessage(m, r)
    \/ \E m \in AnalogousMessages, v \in AnalogousVerdicts :
          AnalogousMessage(m, v, Assignment)

Spec == Init /\ [][Next]_vars

-----------------------------------------------------------------------------
(* Single turns of a session that is under way *)

\* the texts of at most n words over the vocabulary
Texts(vocabulary, n) == UNION { [1..k -> vocabulary] : k \in 0..n }

GapsVocabulary == { "x", "OK", "why" }

RoleplayVocabulary == { "4", "7", "-", "Turns", "khvylyn", "x" }

RoleplayTurnSpecs ==
    { <<>> } \cup
    { <<[ finish_dialogue_conditions |-> c ]>> : c \in Texts(RoleplayVocabulary, MaxCondWords) }

\* the record of an assignment that was answered and graded
GapsGradedRecord(i) ==
    [ assignment_index |-> i - 1,
      assignment |-> Assignment,
      answer |-> <<"x", "x", "x", "x">>,
      graded |-> TRUE,
      waiting_for_answer |-> FALSE,
      user_message |-> <<>>,
      tutor_response |-> <<>>,
      evaluation |-> [ all_correct |-> TRUE, errors |-> <<>>, feedback |-> <<"fb">> ] ]

\* the state stored after the first assignment was generated and g answers were graded
GapsAfter(specs, g) ==
    LET s0 == [WorkflowState(specs) EXCEPT !.current_question_index = g]
    IN  [s0 EXCEPT !.answers =
            [i \in 1..(g + 1) |-> IF i <= g THEN GapsGradedRecord(i)
                                  ELSE GapsRecord(s0, Assignment)]]

SmallTalk(i) == IF i % 2 = 0 THEN <<"a", "b", "c">> ELSE <<"d", "e", "f">>

\* the state stored after n turns of small talk
RoleplayAfter(specs, n) ==
    [WorkflowState(specs) EXCEPT
        !.answers = [i \in 1..n |-> [ user_message |-> <<"hello">>,
                                      agent_response |-> SmallTalk(i),
                                      turn |-> i ]],
        !.custom_data = [ progress_notes |-> <<>> ]]

\* none of the n turns of small talk ended the session
StillActive(specs, n) ==
    \A m \in 1..n :
        ~CheckFinishConditions(RoleplayAfter(specs, m),
                               Get(FirstSpec(specs), "finish_dialogue_conditions", <<>>),
                               SmallTalk(m))

InitTurn ==
    /\ template \in { 26, 27 }
    /\ \/ /\ template = 26
          /\ specifications \in GapsSpecs
          /\ \E g \in 0..(FillGapsAssignments - 1) : db = <<GapsAfter(specifications, g)>>
       \/ /\ template = 27
          /\ specifications \in RoleplayTurnSpecs
          /\ \E n \in 0..MaxPrior :
                /\ StillActive(specifications, n)
                /\ db = IF n = 0 THEN <<>> ELSE <<RoleplayAfter(specifications, n)>>
    /\ budget = 1
    /\ eval_block = NoEvaluation
    /\ ub = NewSession
    /\ inflight = NoneInFlight
    /\ chat_status = "started"
    /\ inbound = <<>>
    /\ events = <<>>

NextTurn ==
    \/ \E m \in Texts(GapsVocabulary, MaxWords), v \in GapsVerdicts :
          FillGapsMessage(m, v, Assignment)
    \/ \E m \in RoleplayMessages, r \in RoleplayResponses : RoleplayMessage(m, r)

SpecTurn == InitTurn /\ [][NextTurn]_vars

-----------------------------------------------------------------------------
(* Single Roleplay turns after a history that may repeat itself *)

RoleplayStallSpecs ==
    { <<>> } \cup
    { <<[ finish_dialogue_conditions |-> c ]>> :
         c \in { <<>>, <<"15", "turns">>, <<"keep", "talking">> } }

StallResponses ==
    { <<"a", "b", "c">>, <<"a", "b", "d">>, <<"d", "e", "f">>, <<"session", "completed">> }

\* the responses the last turns of a history may hold
HistoryResponses == { <<"a", "b", "c">>, <<"a", "b", "d">>, <<"d", "e", "f">> }

\* the histories end with at most this many responses chosen freely
HistoryTails(n) == [1..(IF n < 2 THEN n ELSE 2) -> HistoryResponses]

\* the state stored after n turns, the last of them answered with the responses of tail
RoleplayHistory(specs, n, tail) ==
    [WorkflowState(specs) EXCEPT
        !.answers = [i \in 1..n |->
                        [ user_message |-> <<"hello">>,
                          agent_response |-> IF i > n - Len(tail)
                                             THEN tail[i - (n - Len(tail))]
                                             ELSE SmallTalk(i),
                          turn |-> i ]],
        !.custom_data = [ progress_notes |-> <<>> ]]

\* none of the n turns of the history ended the session
HistoryStillActive(specs, n, tail) ==
    \A m \in 1..n :
        LET h == RoleplayHistory(specs, n, tail)
        IN  ~CheckFinishConditions([h EXCEPT !.answers = SubSeq(@, 1, m)],
                                   Get(FirstSpec(specs), "finish_dialogue_conditions", <<>>),
                                   h.answers[m].agent_response)

InitRoleplay ==
    /\ template = 27
    /\ specifications \in RoleplayStallSpecs
    /\ \E n \in 0..MaxPrior : \E tail \in HistoryTails(n) :
          /\ HistoryStillActive(specifications, n, tail)
          /\ db = IF n = 0 THEN <<>> ELSE <<RoleplayHistory(specifications, n, tail)>>
    /\ budget = 1
    /\ eval_block = NoEvaluation
    /\ ub = NewSession
    /\ inflight = NoneInFlight
    /\ chat_status = "started"
    /\ inbound = <<>>
    /\ events = <<>>

NextRoleplay ==
    \E m \in RoleplayMessages, r \in StallResponses : RoleplayMessage(m, r)

SpecRoleplay == InitRoleplay /\ [][NextRoleplay]_vars

-----------------------------------------------------------------------------
(* Single Reflection turns of a session that is under way *)

Phases == <<"aspiration", "strengths", "feed_forward", "summary">>

\* the coach text that ends each of the first three phases
PhasePhrases == << <<"pereydemo", "do", "sylnykh", "storin">>, <<"nastupni", "kroky">>,
                   <<"pidsumok">> >>

\* the state stored after n turns: the first k turns ended a phase each, the others were
\* small talk, and the last message asked to stop if `stop`
ReflectionAfter(specs, n, k, stop) ==
    LET ended(i) == IF i - 1 <= k THEN i - 1 ELSE k     \* phases ended before turn i
        started(i) == Phases[ended(i) + 1]
        message(i) == IF stop /\ i = n THEN <<"zavershuy">> ELSE <<"x">>
        response(i) == IF i <= k THEN PhasePhrases[i] ELSE <<"a">>
        turns(j) == { i \in 1..n : ended(i) = j - 1 }
        first(j) == CHOOSE i \in turns(j) : \A l \in turns(j) : i <= l
        data(j) == IF turns(j) = {} THEN EmptyDict
                   ELSE LET rs == [ responses |->
                                      [l \in 1..Cardinality(turns(j)) |-> message(first(j) + l - 1)] ]
                        IN  IF j <= k THEN Put(rs, "completed", TRUE) ELSE rs
        timebox == Get(FirstSpec(specs), "timebox", <<>>)
        phase == IF stop \/ TimeboxExpired(timebox, n) THEN "summary" ELSE Phases[k + 1]
    IN  [WorkflowState(specs) EXCEPT
            !.answers = [i \in 1..n |-> [ user_message |-> message(i),
                                          coach_response |-> response(i),
                                          phase |-> started(i) ]],
            !.custom_data = [ phase |-> phase, aspiration |-> data(1),
                              strengths |-> data(2), feed_forward |-> data(3) ]]

\* the session is still active after those n turns
ReflectionReachable(specs, n, k, stop) ==
    /\ k <= n
    /\ k = 3 => n = 3
    /\ stop => n >= 1
    /\ \A m \in 1..(n - 1) : ~TimeboxExpired(Get(FirstSpec(specs), "timebox", <<>>), m)

InitReflection ==
    /\ template = 28
    /\ specifications \in ReflectionSpecs
    /\ \E n \in 0..MaxPrior, k \in 0..3, stop \in BOOLEAN :
          /\ ReflectionReachable(specifications, n, k, stop)
          /\ db = IF n = 0 THEN <<>> ELSE <<ReflectionAfter(specifications, n, k, stop)>>
    /\ budget = 1
    /\ eval_block = NoEvaluation
    /\ ub = NewSession
    /\ inflight = NoneInFlight
    /\ chat_status = "started"
    /\ inbound = <<>>
    /\ events = <<>>

NextReflection ==
    \E m \in ReflectionMessages, r \in ReflectionResponses : ReflectionMessage(m, r)

SpecReflection == InitReflection /\ [][NextReflection]_vars

-----------------------------------------------------------------------------
(* xano_client.py: the score extractor and update_chat_status.  A report is a  *)
(* sequence of tokens: symbols, whitespace and decimal numbers; a number is    *)
(* held in thousandths, so 7.5 is 7500.                                        *)

Sym(s) == [ t |-> "sym", s |-> s ]

Num(n) == [ t |-> "num", n |-> n ]

Ws == [ t |-> "ws" ]

\* the three labels of `patterns`, in the order of the list
BoldLabel == << Sym("**"), Sym("Total Score:"), Sym("**") >>

PlainLabel == << Sym("Total Score:") >>

LocalLabel == << Sym("Zahalna otsinka:") >>

Patterns == << BoldLabel, PlainLabel, LocalLabel >>

\* \s* : the first position from k on that holds no whitespace
SkipWs(text, k) ==
    CHOOSE j \in k..(Len(text) + 1) :
        /\ \A m \in k..(j - 1) : text[m] = Ws
        /\ j = Len(text) + 1 \/ text[j] # Ws

\* label \s* (number)/(number) matches at position i
MatchesAt(text, label, i) ==
    /\ i + Len(label) - 1 <= Len(text)
    /\ SubSeq(text, i, i + Len(label) - 1) = label
    /\ LET j == SkipWs(text, i + Len(label))
       IN  /\ j + 2 <= Len(text)
           /\ text[j].t = "num"
           /\ text[j + 1] = Sym("/")
           /\ text[j + 2].t = "num"

\* re.search: the leftmost match, <<>> without one, else <<[score, max_score]>>
Search(text, label) ==
    LET at == { i \in 1..Len(text) : MatchesAt(text, label, i) }
    IN  IF at = {} THEN <<>>
        ELSE LET i == CHOOSE a \in at : \A b \in at : a <= b
                 j == SkipWs(text, i + Len(label))
             IN  << [ score |-> text[j].n, max_score |-> text[j + 2].n ] >>

\* round(score, 2) of a number in thousandths that lies on no tie
Round2Mutant(n) == (n \div 10) * 10

Round2(n) == ((n + 5) \div 10) * 10

\* the match of pattern p yields a score
Scores(text, p) ==
    /\ Search(text, Patterns[p]) # <<>>
    /\ Search(text, Patterns[p])[1].max_score > 0

\* the loop from the last pattern to the first
FirstOfMutant(ok) == CHOOSE a \in ok : \A b \in ok : a >= b

\* `for pattern in patterns`: the first pattern of the list among `ok`
FirstOf(ok) == CHOOSE a \in ok : \A b \in ok : a <= b

\* _extract_score: <<>> is None
ExtractScore(evaluation_text) ==
    LET ok == { p \in 1..Len(Patterns) : Scores(evaluation_text, p) }
    IN  IF ok = {} THEN <<>>
        ELSE << Round2(Search(evaluation_text, Patterns[FirstOf(ok)])[1].score) >>

\* the report is posted only together with a score
UpdateChatStatusMutant(status, grade) ==
    LET score == ExtractScore(grade)
    IN  IF score # <<>>
        THEN [ op |-> "status", value |-> status, work_summary |-> grade, grade |-> score[1] ]
        ELSE [ op |-> "status", value |-> status ]

\* update_chat_status(status=..., grade=...): the update_data posted to update_ub
UpdateChatStatus(status, grade) ==
    LET score == ExtractScore(grade)
        data  == [ op |-> "status", value |-> status, work_summary |-> grade ]
    IN  IF score # <<>> THEN Put(data, "grade", score[1]) ELSE data

\* the session record after the effects `evs`
UbAfter(rec, evs) ==
    LET ups == SelectSeq(evs, LAMBDA e : e.op = "status" /\ "work_summary" \in DOMAIN e)
    IN  IF ups = <<>> THEN rec
        ELSE [ work_summary |-> << Last(ups).work_summary >>,
               grade |-> IF "grade" \in DOMAIN Last(ups) THEN << Last(ups).grade >>
                         ELSE rec.grade ]

-----------------------------------------------------------------------------
(* Single calls of update_chat_status with a report *)

MaxLines == 2           \* most score lines of a report

\* 7, 7.5 and 7.456
Numerators == { 7000, 7500, 7456 }

\* 0 and 10
Denominators == { 0, 10000 }

Fraction(n, d) == << Num(n), Sym("/"), Num(d) >>

\* "<label> n/d", "Total Score:n/d", "Total Score: n / d", "**Total Score: n/d**" and a word
ScoreLines ==
    { label \o << Ws >> \o Fraction(n, d) :
        label \in { BoldLabel, PlainLabel, LocalLabel }, n \in Numerators, d \in Denominators }
    \cup { PlainLabel \o Fraction(n, d) : n \in Numerators, d \in Denominators }
    \cup { PlainLabel \o << Ws, Num(7000), Ws, Sym("/"), Ws, Num(10000) >>,
           << Sym("**") >> \o PlainLabel \o << Ws >> \o Fraction(7000, 10000) \o << Sym("**") >>,
           << Sym("word") >> }

RECURSIVE ReportsOf(_)
ReportsOf(k) ==
    IF k = 0 THEN { <<>> }
    ELSE ReportsOf(k - 1)
         \cup { r \o << Ws >> \o l : r \in ReportsOf(k - 1) \ { <<>> }, l \in ScoreLines }
         \cup ScoreLines

Reports == ReportsOf(MaxLines)

\* evaluate_chat's call update_chat_status(ub_id, grade=evaluation_text, status=FINISHED)
SaveGrade(evaluation_text) ==
    /\ budget > 0
    /\ events' = << UpdateChatStatus("finished", evaluation_text) >>
    /\ chat_status' = StatusAfter(chat_status, events')
    /\ ub' = UbAfter(ub, events')
    /\ budget' = budget - 1
    /\ UNCHANGED <<template, specifications, db, inbound, eval_block, inflight>>

InitScore ==
    /\ template = 12
    /\ specifications = <<>>
    /\ db = << WorkflowState(specifications) >>
    /\ chat_status = "started"
    /\ inbound = <<>>
    /\ events = <<>>
    /\ budget = 1
    /\ eval_block = NoEvaluation
    /\ ub = NewSession
    /\ inflight = NoneInFlight

NextScore == \E text \in Reports : SaveGrade(text)

SpecScore == InitScore /\ [][NextScore]_vars

-----------------------------------------------------------------------------
(* workflows/__init__.py and the classes it registers *)

WorkflowRegistry ==
    [ id \in { 12, 25, 26, 27, 28, 29 } |->
        CASE id = 12 -> "ExaminationWorkflow"
          [] id = 25 -> "CustomWorkflow"
          [] id = 26 -> "FillGapsWorkflow"
          [] id = 27 -> "RoleplayWorkflow"
          [] id = 28 -> "ReflectionWorkflow"
          [] id = 29 -> "AnalogousWorkflow" ]

\* WORKFLOW_REGISTRY.get(template_id): <<>> is None
GetWorkflowClass(template_id) ==
    IF template_id \in DOMAIN WorkflowRegistry THEN << WorkflowRegistry[template_id] >> ELSE <<>>

\* the methods marked @abstractmethod in BaseWorkflow
AbstractMethods == { "run_workflow", "run_evaluation" }

\* the methods of BaseWorkflow that each class defines itself
Defines(cls) ==
    IF cls \in { "ExaminationWorkflow", "CustomWorkflow", "AnalogousWorkflow" }
    THEN { "run_workflow", "run_evaluation" }
    ELSE { "run_workflow_stream", "run_evaluation" }

\* every class can be instantiated
CanInstantiateMutant(cls) == TRUE

\* workflow_class(Config.OPENAI_API_KEY) raises TypeError while an abstract method is left
CanInstantiate(cls) == AbstractMethods \subseteq Defines(cls)

\* the instance has the attribute `method`
HasMethod(cls, method) == method \in Defines(cls) \cup AbstractMethods

-----------------------------------------------------------------------------
(* run_evaluation of the six workflows *)

EvaluatorName(cls) ==
    CASE cls = "ExaminationWorkflow" -> "ExaminationEvaluator"
      [] cls = "CustomWorkflow" -> "CustomEvaluator"
      [] cls = "FillGapsWorkflow" -> "FillGapsFullEvaluator"
      [] cls = "RoleplayWorkflow" -> "RoleplayEvaluator"
      [] cls = "ReflectionWorkflow" -> "ReflectionEvaluator"
      [] cls = "AnalogousWorkflow" -> "AnalogousFullEvaluator"

\* completed_count of FillGaps and Analogous: the records with a non-empty answer
CompletedCount(workflow_state) ==
    Cardinality({ i \in 1..Len(workflow_state.answers) :
                    Get(workflow_state.answers[i], "answer", <<>>) # <<>> })

\* the instructions that agent_instructions returns to the evaluation agent
EvaluationInstructions(cls, workflow_state, eval_instructions, criteria) ==
    IF cls \in { "FillGapsWorkflow", "AnalogousWorkflow" } /\ CompletedCount(workflow_state) = 0
    THEN [ kind |-> "no_completed_assignments" ]
    ELSE [ kind |-> "evaluate",
           eval_instructions |-> eval_instructions,
           exchanges |-> Len(workflow_state.answers),
           criteria |-> criteria ]

\* str.strip() of a report
Strip(text) ==
    LET keep == { i \in 1..Len(text) : text[i] # Ws }
    IN  IF keep = {} THEN <<>>
        ELSE SubSeq(text, CHOOSE a \in keep : \A b \in keep : a <= b,
                          CHOOSE a \in keep : \A b \in keep : a >= b)

\* a routine that closes the session state it was given
RunEvaluationMutant(cls, workflow_state, eval_instructions, criteria, output) ==
    [ events |-> << EvGen(EvaluatorName(cls),
                          EvaluationInstructions(cls, workflow_state, eval_instructions, criteria)),
                    EvSave([ workflow_state EXCEPT !.status = "closed" ]) >>,
      evaluation_text |-> Strip(output) ]

\* run_evaluation: one run of the evaluation agent, whose output is returned stripped
RunEvaluation(cls, workflow_state, eval_instructions, criteria, output) ==
    [ events |-> << EvGen(EvaluatorName(cls),
                          EvaluationInstructions(cls, workflow_state, eval_instructions, criteria)) >>,
      evaluation_text |-> Strip(output) ]

-----------------------------------------------------------------------------
(* main.py *)

EvRaise(exception, status_code) ==
    [ op |-> "raise", exception |-> exception, status_code |-> status_code ]

EvReturn(body) == [ op |-> "return", body |-> body ]

\* evaluate_chat
EvaluateChatRun(template_id, stored, session, block, output) ==
    IF session.grade # <<>> /\ session.grade[1] # 0
    THEN << EvReturn([ evaluation |-> session.grade, cached |-> TRUE ]) >>
    ELSE IF block.eval_instructions = <<>>
    THEN << EvRaise("HTTPException", 400) >>
    ELSE IF stored = <<>>
    THEN << EvLoad, EvRaise("HTTPException", 404) >>
    ELSE LET criteria == block.eval_crit_json
             workflow_class == GetWorkflowClass(template_id)
         IN  IF workflow_class = <<>>
             THEN << EvLoad, EvRaise("HTTPException", 400) >>
             ELSE IF ~CanInstantiate(workflow_class[1])
             THEN << EvLoad, EvRaise("TypeError", 500) >>
             ELSE LET run == RunEvaluation(workflow_class[1], stored[1],
                                           block.eval_instructions, criteria, output)
                  IN  << EvLoad >> \o run.events
                      \o << UpdateChatStatus("finished", run.evaluation_text),
                            EvReturn([ evaluation |-> << run.evaluation_text >>,
                                       cached |-> FALSE ]) >>

\* process_student_message, with the stream of its response drained
ProcessStudentMessageRun(template_id, status) ==
    LET started == IF status = "idle" THEN << EvStatus("started") >> ELSE <<>>
        workflow_class == GetWorkflowClass(template_id)
    IN  IF workflow_class = <<>>
        THEN started \o << EvRaise("HTTPException", 500) >>
        ELSE IF ~CanInstantiate(workflow_class[1])
        THEN started \o << EvRaise("TypeError", 500) >>
        ELSE IF ~HasMethod(workflow_class[1], "run_workflow_stream")
        THEN started \o << EvRaise("AttributeError", 200) >>
        ELSE started \o << EvReturn([ stream |-> workflow_class[1] ]) >>

-----------------------------------------------------------------------------
(* Requests to the two endpoints, for sessions the workflows have left behind *)

MaxHandled == 3         \* most messages a workflow has handled before the requests
MaxRequests == 2        \* requests sent to the endpoints

UnknownTemplate == 99

ApiSpecs(template_id) ==
    CASE template_id = 12 -> ExamQuestions(MaxQuestions)
      [] template_id = 25 -> << [ topic |-> "custom" ] >>
      [] template_id = 26 -> << [ topic |-> "gaps" ] >>
      [] template_id = 27 -> <<>>
      [] template_id = 28 -> <<>>
      [] template_id = 29 -> << [ learning_goal |-> "tenses" ] >>
      [] OTHER -> <<>>

\* one message handled by the workflow of the template: an answer that is judged
\* complete and correct
HandleOnce(template_id, stored, specs) ==
    CASE template_id = 12 ->
           ExaminationRunWorkflow(stored, specs, <<"x">>,
               [ complete |-> TRUE, missing_concepts |-> <<>>, needs_clarification |-> FALSE ])
      [] template_id = 25 -> CustomRunWorkflow(stored, specs, <<"x">>, <<"a">>)
      [] template_id = 26 ->
           FillGapsRunWorkflowStream(stored, specs, <<"x">>,
               [ all_correct |-> TRUE, errors |-> <<>>, feedback |-> <<"fb">> ], Assignment)
      [] template_id = 27 -> RoleplayRunWorkflowStream(stored, specs, <<"hello">>, <<"a", "b", "c">>)
      [] template_id = 28 -> ReflectionRunWorkflowStream(stored, specs, <<"x">>, <<"a">>)
      [] template_id = 29 ->
           AnalogousRunWorkflow(stored, specs, <<"past", "simple", "tense">>,
               [ correct |-> TRUE, errors |-> <<>>, feedback |-> <<"fb">> ], Assignment)

\* the stored state and the session status after the workflow handled k messages
RECURSIVE SessionAfter(_, _, _)
SessionAfter(template_id, specs, k) ==
    IF k = 0 THEN [ db |-> <<>>, chat_status |-> "started" ]
    ELSE LET before == SessionAfter(template_id, specs, k - 1)
             evs == HandleOnce(template_id, before.db, specs)
         IN  [ db |-> Persisted(before.db, evs),
               chat_status |-> StatusAfter(before.chat_status, evs) ]

EvalBlocks ==
    [ eval_instructions : { <<>>, <<"grade", "the", "work">> },
      eval_crit_json : { <<>>, << [ criterion_name |-> "c", max_points |-> 10 ] >> } ]

\* what the evaluation agent may answer
ApiReports ==
    { << Sym("word") >>,
      << Ws >> \o BoldLabel \o << Ws >> \o Fraction(7000, 10000) \o << Ws >>,
      PlainLabel \o << Ws >> \o Fraction(7000, 0) }

\* POST /chat/{ub_id}/evaluate
EvaluateChat(output) ==
    /\ budget > 0
    /\ events' = EvaluateChatRun(template, db, ub, eval_block, output)
    /\ db' = Persisted(db, events')
    /\ chat_status' = StatusAfter(chat_status, events')
    /\ ub' = UbAfter(ub, events')
    /\ budget' = budget - 1
    /\ inbound' = <<>>
    /\ UNCHANGED <<template, specifications, eval_block, inflight>>

\* POST /chat/message
ProcessStudentMessage(content) ==
    /\ budget > 0
    /\ events' = ProcessStudentMessageRun(template, chat_status)
    /\ db' = Persisted(db, events')
    /\ chat_status' = StatusAfter(chat_status, events')
    /\ ub' = UbAfter(ub, events')
    /\ budget' = budget - 1
    /\ inbound' = content
    /\ UNCHANGED <<template, specifications, eval_block, inflight>>

InitApi ==
    /\ template \in DOMAIN WorkflowRegistry \cup { UnknownTemplate }
    /\ specifications = ApiSpecs(template)
    /\ \E k \in 0..MaxHandled :
          /\ template = UnknownTemplate => k = 0
          /\ db = SessionAfter(template, specifications, k).db
          /\ IF k = 0 THEN chat_status \in { "idle", "started" }
             ELSE chat_status = SessionAfter(template, specifications, k).chat_status
    /\ eval_block \in EvalBlocks
    /\ ub = NewSession
    /\ inflight = NoneInFlight
    /\ inbound = <<>>
    /\ events = <<>>
    /\ budget = MaxRequests

NextApi ==
    \/ \E output \in ApiReports : EvaluateChat(output)
    \/ \E content \in CustomMessages : ProcessStudentMessage(content)

SpecApi == InitApi /\ [][NextApi]_vars

-----------------------------------------------------------------------------
(* Two invocations for one session, interleaved at the awaits between the read *)
(* of the state and its write                                                  *)

MaxConcurrent == 2      \* messages sent while others may be in flight

\* a handler that writes nothing back
RaceHandlerMutant(state, specs, user_message, response) == <<>>

\* the handler from the point where load_or_create_state has returned `state`
RaceHandler(state, specs, user_message, response) ==
    Tail(IF template = 25
         THEN CustomRunWorkflow(<<state>>, specs, user_message, response)
         ELSE RoleplayRunWorkflowStream(<<state>>, specs, user_message, response))

\* an invocation starts: `state = await self.load_or_create_state(...)`
Begin(i, user_message) ==
    /\ budget > 0
    /\ inflight[i] = <<>>
    /\ LET lc == LoadOrCreateState(db, specifications)
       IN  /\ inflight' = [ inflight EXCEPT
                              ![i] = << [ state |-> lc.state, user_message |-> user_message ] >> ]
           /\ events' = lc.events
           /\ db' = Persisted(db, lc.events)
    /\ inbound' = user_message
    /\ budget' = budget - 1
    /\ UNCHANGED <<template, specifications, chat_status, eval_block, ub>>

\* the invocation goes on after its generation: it records the turn in the state it
\* read and saves that state
Finish(i, response) ==
    /\ inflight[i] # <<>>
    /\ events' = RaceHandler(inflight[i][1].state, specifications,
                             inflight[i][1].user_message, response)
    /\ db' = Persisted(db, events')
    /\ chat_status' = StatusAfter(chat_status, events')
    /\ inflight' = [ inflight EXCEPT ![i] = <<>> ]
    /\ inbound' = inflight[i][1].user_message
    /\ UNCHANGED <<template, specifications, budget, eval_block, ub>>

InitRace ==
    /\ template \in { 25, 27 }
    /\ specifications = <<>>
    /\ db = <<>>
    /\ chat_status = "started"
    /\ inbound = <<>>
    /\ events = <<>>
    /\ budget = MaxConcurrent
    /\ eval_block = NoEvaluation
    /\ ub = NewSession
    /\ inflight = NoneInFlight

NextRace ==
    \/ \E i \in Invocations, m \in CustomMessages : Begin(i, m)
    \/ \E i \in Invocations, r \in RoleplayResponses : Finish(i, r)

SpecRace == InitRace /\ [][NextRace]_vars

-----------------------------------------------------------------------------
(* Examination sessions in which a read of the state or a generation call fails *)

\* XanoClient.get_workflow_state: None when the request raises, the response is
\* not 200, or the payload is empty or an error
GetWorkflowState(stored, ok) == IF ok THEN stored ELSE <<>>

\* the positions of the generation calls among the effects
GenPositions(evs) == { p \in 1..Len(evs) : evs[p].op = "gen" }

\* Runner.run raises at position p: the effects before it have happened, the
\* exception leaves run_workflow
AbortAt(evs, p) == SubSeq(evs, 1, p - 1) \o << EvRaise("Exception", 500) >>

\* a message whose read of the stored state fails
LoadFails(user_message, evaluation) ==
    /\ template = 12
    /\ budget > 0
    /\ db # <<>>
    /\ Commit(user_message,
              ExaminationRunWorkflow(GetWorkflowState(db, FALSE), specifications,
                                     user_message, evaluation))

\* a message during which one generation call fails
GenerationFails(user_message, evaluation) ==
    /\ template = 12
    /\ budget > 0
    /\ LET evs == ExaminationRunWorkflow(GetWorkflowState(db, TRUE), specifications,
                                         user_message, evaluation)
       IN  \E p \in GenPositions(evs) : Commit(user_message, AbortAt(evs, p))

InitFault ==
    /\ template = 12
    /\ \E n \in 1..MaxQuestions :
          /\ specifications = ExamQuestions(n)
          /\ budget = ExamBudget(n)
    /\ db = <<>>
    /\ chat_status = "started"
    /\ inbound = <<>>
    /\ events = <<>>
    /\ eval_block = NoEvaluation
    /\ ub = NewSession
    /\ inflight = NoneInFlight

NextFault ==
    \/ \E m \in ExamMessages, v \in ExamVerdicts : ExaminationMessage(m, v)
    \/ \E m \in ExamMessages, v \in ExamVerdicts : LoadFails(m, v)
    \/ \E m \in ExamMessages, v \in ExamVerdicts : GenerationFails(m, v)

SpecFault == InitFault /\ [][NextFault]_vars

-----------------------------------------------------------------------------
(* Whole Reflection sessions, long enough for the timeboxes to expire *)

\* a coach text that holds the closing phrase of every phase
AllPhrases == PhasePhrases[1] \o PhasePhrases[2] \o PhasePhrases[3]

TimeboxResponses == { <<"a">>, AllPhrases }

InitTimebox ==
    /\ template = 28
    /\ specifications \in ReflectionSpecs
    /\ budget = MaxSessionTurns
    /\ db = <<>>
    /\ chat_status = "started"
    /\ inbound = <<>>
    /\ events = <<>>
    /\ eval_block = NoEvaluation
    /\ ub = NewSession
    /\ inflight = NoneInFlight

NextTimebox ==
    \E m \in ReflectionMessages, r \in TimeboxResponses : ReflectionMessage(m, r)

SpecTimebox == InitTimebox /\ [][NextTimebox]_vars

-----------------------------------------------------------------------------
(* Two Examination invocations for one session, interleaved at every await *)

\* an invocation starts: `state = await self.load_or_create_state(...)` reads the
\* stored state; the calls the handler will make on that state are still to come
ExamBegin(i, user_message, evaluation) ==
    /\ budget > 0
    /\ inflight[i] = <<>>
    /\ LET evs == ExaminationRunWorkflow(db, specifications, user_message, evaluation)
       IN  /\ inflight' = [ inflight EXCEPT
                              ![i] = << [ state |-> LoadOrCreateState(db, specifications).state,
                                          user_message |-> user_message,
                                          pending |-> Tail(evs) ] >> ]
           /\ events' = << Head(evs) >>
    /\ inbound' = user_message
    /\ budget' = budget - 1
    /\ UNCHANGED <<template, specifications, db, chat_status, eval_block, ub>>

\* the invocation makes its next awaited call
ExamStep(i) ==
    /\ inflight[i] # <<>>
    /\ LET pending == inflight[i][1].pending
       IN  /\ events' = << Head(pending) >>
           /\ inflight' = [ inflight EXCEPT
                              ![i] = IF Tail(pending) = <<>> THEN <<>>
                                     ELSE << [ inflight[i][1] EXCEPT !.pending = Tail(pending) ] >> ]
    /\ db' = Persisted(db, events')
    /\ chat_status' = StatusAfter(chat_status, events')
    /\ inbound' = inflight[i][1].user_message
    /\ UNCHANGED <<template, specifications, budget, eval_block, ub>>

InitRaceExam ==
    /\ template = 12
    /\ specifications = ExamQuestions(1)
    /\ db = <<>>
    /\ chat_status = "started"
    /\ inbound = <<>>
    /\ events = <<>>
    /\ budget = MaxConcurrent + 1
    /\ eval_block = NoEvaluation
    /\ ub = NewSession
    /\ inflight = NoneInFlight

NextRaceExam ==
    \/ \E i \in Invocations, m \in ExamMessages, v \in ExamVerdicts : ExamBegin(i, m, v)
    \/ \E i \in Invocations : ExamStep(i)

SpecRaceExam == InitRaceExam /\ [][NextRaceExam]_vars

-----------------------------------------------------------------------------
(* Sessions in which messages and evaluation requests alternate *)

\* the templates whose evaluation runs: their class can be instantiated
GradedTemplates == { t \in DOMAIN WorkflowRegistry : CanInstantiate(WorkflowRegistry[t]) }

InitGraded ==
    /\ template \in GradedTemplates
    /\ specifications = ApiSpecs(template)
    /\ db = <<>>
    /\ chat_status = "started"
    /\ inbound = <<>>
    /\ events = <<>>
    /\ budget = MaxHandled
    /\ eval_block \in { b \in EvalBlocks : b.eval_instructions # <<>> }
    /\ ub = NewSession
    /\ inflight = NoneInFlight

NextGraded ==
    \/ \E m \in ExamMessages, v \in ExamVerdicts : ExaminationMessage(m, v)
    \/ \E m \in CustomMessages, r \in CustomResponses : CustomMessage(m, r)
    \/ \E m \in AnalogousMessages, v \in AnalogousVerdicts :
          AnalogousMessage(m, v, Assignment)
    \/ \E output \in ApiReports : EvaluateChat(output)

SpecGraded == InitGraded /\ [][NextGraded]_vars

-----------------------------------------------------------------------------
(* Properties of whole sessions *)

Stored == db[1]

HasState == db # <<>>

Saves(evs) == SelectSeq(evs, LAMBDA e : e.op = "save")

Gens(evs, agent) == SelectSeq(evs, LAMBDA e : e.op = "gen" /\ e.agent = agent)

\* the statuses of the states persisted so far by the session's last state and an invocation
PersistedStatuses(stored, evs) ==
    (IF stored = <<>> THEN <<>> ELSE <<stored[1].status>>)
        \o [i \in 1..Len(Saves(evs)) |-> Saves(evs)[i].state.status]

\* C1: over the messages of a session, processed one at a time by any of the six
\* workflows, no state persisted after a state with status finished has status active
C1_StatusOnlyActiveToFinished ==
    [][ LET st == PersistedStatuses(db, events')
        IN  \A i \in 1..Len(st) : \A j \in i..Len(st) :
               /\ st[i] \in { "active", "finished" }
               /\ st[i] = "finished" => st[j] = "finished" ]_vars

\* a session was finished by its last message, having been active before it
C1_Witness ==
    /\ HasState /\ Stored.status = "finished"
    /\ \E i \in 1..Len(Saves(events)) : Saves(events)[i].state.status = "finished"
    /\ Len(Stored.answers) >= 2

\* C2: a message for a session whose state is finished gets the fixed reply, with no
\* generation call and no state write: the stored state is unchanged
C2_FinishedIsFrozen ==
    [][ (HasState /\ Stored.status = "finished")
            => /\ events' = <<EvLoad, EvReply("already finished")>>
               /\ db' = db ]_vars

\* a message was answered with the fixed reply of a finished Examination
C2_Witness ==
    /\ template = 12 /\ HasState /\ Stored.status = "finished"
    /\ events = <<EvLoad, EvReply("already finished")>>

\* the invocation asked the student again about the question it had just evaluated
FollowUpTurn(evs) ==
    /\ Gens(evs, "Evaluator") # <<>>
    /\ Gens(evs, "Interviewer") # <<>>
    /\ Gens(evs, "Interviewer")[1].instructions.question
           = Gens(evs, "Evaluator")[1].instructions.question

\* C3: Examination: follow_up_count stays within 0..max_follow_ups, and every follow-up
\* turn of a question raises it by one, so no question gets more than max_follow_ups
C3_FollowUpsBounded ==
    [][ template = 12 =>
          /\ db' # <<>> => /\ db'[1].follow_up_count \in 0..db'[1].max_follow_ups
                           /\ db'[1].max_follow_ups = DefaultMaxFollowUps
          /\ FollowUpTurn(events') =>
                /\ HasState
                /\ Stored.follow_up_count < Stored.max_follow_ups
                /\ db'[1].follow_up_count = Stored.follow_up_count + 1
                /\ Len(db'[1].answers) = Len(Stored.answers) ]_vars

\* the last follow-up the budget of a question allows was issued
C3_Witness ==
    /\ template = 12 /\ HasState
    /\ Stored.follow_up_count = Stored.max_follow_ups
    /\ FollowUpTurn(events)

\* the questions whose answer the evaluator judged complete
CompleteCount(state) ==
    Cardinality({ i \in 1..Len(state.answers) :
                     Get(Get(state.answers[i], "evaluation", EmptyDict), "complete", FALSE) })

\* C4: Examination, at the end of every processed message: once all N questions are
\* judged complete the status is finished, and it is not finished while the index is below N
C4_FinishedAfterNComplete ==
    (template = 12 /\ HasState) =>
        /\ CompleteCount(Stored) = Len(Stored.questions) => Stored.status = "finished"
        /\ Stored.current_question_index < Len(Stored.questions) => Stored.status = "active"

\* an examination of two questions ended with both judged complete
C4_Witness ==
    /\ template = 12 /\ HasState
    /\ Len(Stored.questions) = 2 /\ CompleteCount(Stored) = 2
    /\ Stored.status = "finished"

\* C5: Examination, a turn in which the evaluator ran: complete advances the index by one
\* and resets follow_up_count; incomplete below the maximum raises follow_up_count by one
\* and keeps the index; incomplete at the maximum advances the index and resets the count
C5_TransitionRule ==
    [][ (template = 12 /\ Gens(events', "Evaluator") # <<>>) =>
          /\ HasState
          /\ LET verdict == db'[1].answers[Len(Stored.answers)].evaluation
                 idx == Stored.current_question_index
                 fuc == Stored.follow_up_count
             IN  /\ verdict.complete =>
                        /\ db'[1].current_question_index = idx + 1
                        /\ db'[1].follow_up_count = 0
                 /\ (~verdict.complete /\ fuc < Stored.max_follow_ups) =>
                        /\ db'[1].current_question_index = idx
                        /\ db'[1].follow_up_count = fuc + 1
                 /\ (~verdict.complete /\ fuc >= Stored.max_follow_ups) =>
                        /\ db'[1].current_question_index = idx + 1
                        /\ db'[1].follow_up_count = 0 ]_vars

\* a question was left by force-advance: judged incomplete, and the next one asked
C5_Witness ==
    /\ template = 12 /\ HasState
    /\ Gens(events, "Evaluator") # <<>>
    /\ Len(Stored.answers) >= 2
    /\ ~Stored.answers[Len(Stored.answers) - 1].evaluation.complete
    /\ Stored.current_question_index = 1

\* the records of FillGaps whose answer was submitted and graded
GradedCount(state) ==
    Cardinality({ i \in 1..Len(state.answers) :
                     /\ Get(state.answers[i], "graded", FALSE)
                     /\ ~Get(state.answers[i], "waiting_for_answer", FALSE) })

\* C6: FillGaps: status is finished only with exactly 10 graded records, and there are
\* never 11 of them
C6_ExactlyTenGraded ==
    (template = 26 /\ HasState) =>
        /\ GradedCount(Stored) < 11
        /\ Stored.status = "finished" => GradedCount(Stored) = 10

\* a FillGaps session finished
C6_Witness ==
    /\ template = 26 /\ HasState
    /\ Stored.status = "finished"
    /\ GradedCount(Stored) = 10

\* C8: an invocation that persists status finished issues, after that write, a status
\* update with value finished, and issues no status update otherwise
C8_PersistThenNotify ==
    LET fin == { i \in 1..Len(events) :
                    events[i].op = "save" /\ events[i].state.status = "finished" }
        ups == { j \in 1..Len(events) : events[j].op = "status" }
    IN  /\ fin # {} => \E j \in ups : \A i \in fin : i < j
        /\ \A j \in ups : /\ events[j].value = "finished"
                          /\ \E i \in fin : i < j
        /\ HasState /\ Stored.status = "finished" => chat_status = "finished"

\* a Roleplay turn ended the session
C8_Witness ==
    /\ template = 27
    /\ \E i \in 1..Len(events) :
          events[i].op = "save" /\ events[i].state.status = "finished"

\* C10: Roleplay: a session with fewer than 3 recorded turns has status active
C10_NoFinishBeforeThreeTurns ==
    (template = 27 /\ HasState /\ Len(Stored.answers) < 3)
        => Stored.status = "active"

\* two turns in, the agent has used a completion phrase under configured finish conditions
C10_Witness ==
    /\ template = 27 /\ HasState
    /\ Len(Stored.answers) = 2
    /\ ContainsAny(Lower(Stored.answers[2].agent_response), CompletionPhrases)
    /\ Get(FirstSpec(specifications), "finish_dialogue_conditions", <<>>) # <<>>
    /\ Stored.status = "active"

-----------------------------------------------------------------------------
(* Properties of single turns *)

\* some keyword stands in the lower-cased text
HasKeyword(text, keywords) ==
    \E kw \in keywords : \E i \in 1..Len(text) :
        /\ i + Len(kw) - 1 <= Len(text)
        /\ \A k \in 1..Len(kw) : LowerWord(text[i + k - 1]) = kw[k]

\* the stored FillGaps state awaits the answer to an assignment
AwaitingAnswer ==
    /\ template = 26 /\ HasState
    /\ Stored.status = "active"
    /\ Stored.current_question_index < 10
    /\ Stored.answers # <<>>
    /\ Last(Stored.answers).waiting_for_answer

\* the turn answered the submission without scoring it
NotScored ==
    /\ Gens(events', "GapsEvaluator") = <<>>
    /\ Gens(events', "FillGapsTutor") # <<>>
    /\ db'[1].current_question_index = Stored.current_question_index
    /\ Len(db'[1].answers) = Len(Stored.answers)
    /\ \A i \in 1..Len(Stored.answers) :
          /\ db'[1].answers[i].graded = Stored.answers[i].graded
          /\ db'[1].answers[i].answer = Stored.answers[i].answer
    /\ Last(db'[1].answers).waiting_for_answer

\* the turn evaluated the submission, marked it graded and moved to the next assignment
Scored ==
    /\ Len(Gens(events', "GapsEvaluator")) = 1
    /\ db'[1].current_question_index = Stored.current_question_index + 1
    /\ LET rec == db'[1].answers[Len(Stored.answers)]
       IN  rec.graded /\ ~rec.waiting_for_answer /\ rec.answer = inbound'

\* C7 as amended: a submission with a question keyword, or of at most 3 words with an
\* acknowledgement keyword, is answered without scoring; any other submission is scored
C7_ClarificationNotScored ==
    [][ AwaitingAnswer =>
          IF \/ HasKeyword(inbound', GapsQuestionIndicators)
             \/ Len(inbound') <= 3 /\ HasKeyword(inbound', ShortResponseIndicators)
          THEN NotScored
          ELSE Scored ]_vars

\* a three-word acknowledgement was answered and left the assignment open
C7_Witness ==
    /\ template = 26 /\ HasState
    /\ Len(inbound) = 3 /\ inbound[3] = "OK"
    /\ ~HasKeyword(inbound, GapsQuestionIndicators)
    /\ Last(Stored.answers).user_message = inbound
    /\ Last(Stored.answers).waiting_for_answer
    /\ Stored.current_question_index = 4

\* C7 as claimed: a submission with a question keyword, or short by the ratio of its
\* length to the assignment's, is answered without scoring
C7_Original ==
    [][ ( /\ AwaitingAnswer
          /\ \/ HasKeyword(inbound', GapsQuestionIndicators)
             \/ SeemsIncomplete(inbound', Last(Stored.answers).assignment) )
        => NotScored ]_vars

RECURSIVE SkipDashes(_)
SkipDashes(text) ==
    IF text # <<>> /\ Head(text) = "-" THEN SkipDashes(Tail(text)) ELSE text

RECURSIVE ClaimedMaxTurns(_)
\* the turn maximum C9 describes: the first integer followed by a unit decides
ClaimedMaxTurns(text) ==
    IF text = <<>> THEN 20
    ELSE LET after == SkipDashes(Tail(text))
             unit == IF after = <<>> THEN "" ELSE LowerWord(Head(after))
         IN  IF Head(text) \in { "4", "7" } /\ unit \in { "khvylyn", "turns" }
             THEN LET n == IF Head(text) = "4" THEN 4 ELSE 7
                  IN  IF unit = "khvylyn" THEN (IF n * 2 >= 10 THEN n * 2 ELSE 10) ELSE n
             ELSE ClaimedMaxTurns(Tail(text))

Conditions == Get(FirstSpec(specifications), "finish_dialogue_conditions", <<>>)

-----------------------------------------------------------------------------
(* Properties of Roleplay turns *)

\* the last three recorded responses begin alike, five or more turns in
Stalled(state) ==
    /\ Len(state.answers) >= 5
    /\ \A i, j \in (Len(state.answers) - 2)..Len(state.answers) :
          Prefix50(state.answers[i].agent_response) = Prefix50(state.answers[j].agent_response)

\* a Roleplay turn was taken under the finish conditions "15 turns"
FifteenTurnsTurn ==
    /\ template = 27
    /\ Conditions = <<"15", "turns">>
    /\ Gens(events', "RoleplayAgent") # <<>>

\* C11 as amended: under "15 turns" a turn before the 15th leaves the session active
\* unless its response carries a completion phrase or the responses stall, and the
\* 15th turn finishes it
C11_FifteenTurns ==
    [][ FifteenTurnsTurn =>
          LET k == Len(db'[1].answers)
          IN  /\ ( /\ k < 15
                   /\ ~HasKeyword(Last(db'[1].answers).agent_response, CompletionPhrases)
                   /\ ~Stalled(db'[1]) ) => db'[1].status = "active"
              /\ k = 15 => db'[1].status = "finished" ]_vars

\* the 15th turn ended a session that neither stalled nor heard a completion phrase
C11_Witness ==
    /\ template = 27 /\ HasState
    /\ Conditions = <<"15", "turns">>
    /\ Len(Stored.answers) = 15
    /\ Gens(events, "RoleplayAgent") # <<>>
    /\ Last(Stored.answers).agent_response = <<"d", "e", "f">>
    /\ ~Stalled(Stored)
    /\ Stored.status = "finished"

\* C11 as claimed: under "15 turns" no turn before the 15th finishes the session
C11_Original ==
    [][ FifteenTurnsTurn => (Len(db'[1].answers) < 15 => db'[1].status = "active") ]_vars

\* C12: a Roleplay turn after which the last three responses have identical prefixes and
\* at least 5 turns are recorded finishes the session
C12_StallFinishes ==
    [][ ( /\ template = 27
          /\ Gens(events', "RoleplayAgent") # <<>>
          /\ Stalled(db'[1]) ) => db'[1].status = "finished" ]_vars

-----------------------------------------------------------------------------
(* Properties of Reflection *)

\* custom_data.phase, "aspiration" while it is absent
PhaseIn(stored) ==
    IF stored = <<>> THEN "aspiration" ELSE Get(stored[1].custom_data, "phase", "aspiration")

Rank(phase) ==
    CASE phase = "aspiration" -> 1 [] phase = "strengths" -> 2
      [] phase = "feed_forward" -> 3 [] phase = "summary" -> 4 [] OTHER -> 0

Timebox == Get(FirstSpec(specifications), "timebox", <<>>)

\* a Reflection turn was taken: the coach was asked for a text
CoachTurn == template = 28 /\ Gens(events', "ReflectionCoach") # <<>>

\* C13: Reflection: the phase stays, advances by exactly one or jumps to summary, never
\* to an earlier phase, and status becomes finished only in a turn that started in summary
C13_PhaseMovesForward ==
    [][ CoachTurn =>
          LET p == PhaseIn(db)
              q == PhaseIn(db')
          IN  /\ Rank(p) >= 1 /\ Rank(q) >= Rank(p)
              /\ \/ q = p
                 \/ Rank(q) = Rank(p) + 1
                 \/ q = "summary"
              /\ Rank(q) > Rank(p) + 1 =>
                    \/ HasKeyword(inbound', StopPhrases)
                    \/ TimeboxExpired(Timebox, Len(db'[1].answers))
              /\ db'[1].status = "finished" => (HasState /\ p = "summary") ]_vars

\* a turn that started in strengths has moved the session to feed_forward
C13_Witness ==
    /\ template = 28 /\ HasState
    /\ Gens(events, "ReflectionCoach") # <<>>
    /\ Last(Stored.answers).phase = "strengths"
    /\ PhaseIn(db) = "feed_forward"

\* the response carries both phrases that end the aspiration phase
EndsAspiration(response) ==
    /\ HasKeyword(response, { <<"pereydemo", "do">> })
    /\ HasKeyword(response, { <<"sylnykh", "storin">> })

\* C14 as amended: the first turn of a session is recorded in phase aspiration; a turn in
\* phase aspiration whose response carries both phrases leaves phase strengths, unless the
\* message carries a stop phrase or the timebox has expired, which leave phase summary
C14_AspirationToStrengths ==
    [][ CoachTurn =>
          /\ ~HasState =>
                /\ Last(db'[1].answers).phase = "aspiration"
                /\ { "phase", "aspiration", "strengths", "feed_forward" }
                       \subseteq DOMAIN db'[1].custom_data
          /\ (PhaseIn(db) = "aspiration" /\ EndsAspiration(Last(db'[1].answers).coach_response)) =>
                PhaseIn(db') = IF \/ HasKeyword(inbound', StopPhrases)
                                  \/ TimeboxExpired(Timebox, Len(db'[1].answers))
                               THEN "summary"
                               ELSE "strengths" ]_vars

\* the first turn of a session was answered with both phrases and left phase strengths
C14_Witness ==
    /\ template = 28 /\ HasState
    /\ Gens(events, "ReflectionCoach") # <<>>
    /\ Len(Stored.answers) = 1
    /\ Stored.answers[1].phase = "aspiration"
    /\ EndsAspiration(Stored.answers[1].coach_response)
    /\ PhaseIn(db) = "strengths"

\* C14 as claimed: a turn in phase aspiration whose response carries both phrases leaves
\* phase strengths
C14_Original ==
    [][ CoachTurn =>
          /\ ~HasState => Last(db'[1].answers).phase = "aspiration"
          /\ (PhaseIn(db) = "aspiration" /\ EndsAspiration(Last(db'[1].answers).coach_response))
                => PhaseIn(db') = "strengths" ]_vars

\* the turn neither carries a stop phrase nor a text that ends the feed_forward phase
NoOtherWayToSummary ==
    /\ ~HasKeyword(inbound', StopPhrases)
    /\ ~( /\ PhaseIn(db) = "feed_forward"
          /\ HasKeyword(Last(db'[1].answers).coach_response,
                        { <<"pidsumok">>, <<"produktyvnu", "sesiyu">> }) )

\* the threshold of turns the configured timebox stands for: 8 for "10", 15 for "20"
TimeboxThreshold ==
    IF HasDigits(Timebox, "10") THEN 8 ELSE IF HasDigits(Timebox, "20") THEN 15 ELSE 0

\* C15: Reflection with a timebox holding "10" (or "20"): a turn of an earlier phase that
\* brings the session to more than 8 (15) recorded turns forces phase summary, and one
\* that brings it to 8 (15) or fewer does not
C15_TimeboxFallback ==
    [][ ( /\ CoachTurn
          /\ TimeboxThreshold > 0
          /\ PhaseIn(db) # "summary" ) =>
             /\ Len(db'[1].answers) > TimeboxThreshold => PhaseIn(db') = "summary"
             /\ (Len(db'[1].answers) <= TimeboxThreshold /\ NoOtherWayToSummary)
                    => PhaseIn(db') # "summary" ]_vars

\* C16: Reflection: a turn whose message carries a stop phrase persists phase summary,
\* whatever phase it started in and whatever the coach text
C16_StopPhraseForcesSummary ==
    [][ (CoachTurn /\ HasKeyword(inbound', StopPhrases)) =>
          PhaseIn(db') = "summary" ]_vars

\* a stop phrase sent in phase strengths overrode the coach's move to feed_forward
C16_Witness ==
    /\ template = 28 /\ HasState
    /\ Gens(events, "ReflectionCoach") # <<>>
    /\ inbound = <<"zavershuy">>
    /\ Last(Stored.answers).phase = "strengths"
    /\ Last(Stored.answers).coach_response = <<"nastupni", "kroky">>
    /\ PhaseIn(db) = "summary"
    /\ Stored.status = "active"

\* the turns recorded in phase summary
SummaryTurns(state) ==
    Cardinality({ i \in 1..Len(state.answers) : state.answers[i].phase = "summary" })

\* C17: Reflection: a turn that starts in phase summary generates one closing message and
\* ends with status finished; no session records two turns in phase summary, and a message
\* to the finished session generates nothing
C17_OneClosingMessage ==
    [][ template = 28 =>
          /\ (HasState /\ Stored.status = "active" /\ PhaseIn(db) = "summary") =>
                /\ Len(Gens(events', "ReflectionCoach")) = 1
                /\ Gens(events', "ReflectionCoach")[1].instructions.kind = "summary"
                /\ Last(db'[1].answers).phase = "summary"
                /\ db'[1].status = "finished"
                /\ chat_status' = "finished"
          /\ (HasState /\ Stored.status = "finished") =>
                /\ Gens(events', "ReflectionCoach") = <<>>
                /\ db' = db
          /\ db' # <<>> => SummaryTurns(db'[1]) <= 1 ]_vars

\* a message reached a session that had been closed by its summary turn
C17_Witness ==
    /\ template = 28 /\ HasState
    /\ Stored.status = "finished"
    /\ SummaryTurns(Stored) = 1
    /\ Last(Stored.answers).phase = "summary"
    /\ events = <<EvLoad, EvReply("already finished")>>

-----------------------------------------------------------------------------
(* Properties of Analogous *)

\* the stored Analogous state waits for the student to name a topic
AwaitingTopic ==
    /\ template = 29 /\ HasState
    /\ Stored.status = "active"
    /\ Stored.answers # <<>>
    /\ Get(Last(Stored.answers), "waiting_for_topic", FALSE)

\* C18: Analogous, waiting for a topic: a message of at most 2 words or with a '?' leaves
\* the topic unset, the session waiting for a topic, and the index and the number of
\* records unchanged; any other message becomes the topic and the session awaits the
\* answer to the first assignment
C18_TopicNegotiation ==
    [][ AwaitingTopic =>
          LET rec == Last(db'[1].answers)
          IN  /\ Len(db'[1].answers) = Len(Stored.answers)
              /\ db'[1].current_question_index = Stored.current_question_index
              /\ IF Len(inbound') <= 2 \/ (\E i \in 1..Len(inbound') : inbound'[i] = "?")
                 THEN /\ rec.topic = <<>>
                      /\ rec.waiting_for_topic
                      /\ ~Get(rec, "waiting_for_answer", FALSE)
                 ELSE /\ rec.topic = inbound'
                      /\ ~rec.waiting_for_topic
                      /\ Get(rec, "waiting_for_answer", FALSE)
                      /\ rec.assignment_index = 0 ]_vars

\* a question of four words about the topic was not taken as the topic
C18_Witness ==
    /\ AwaitingTopic
    /\ inbound = <<"maybe", "past", "tense", "?">>
    /\ Last(Stored.answers).user_message = inbound
    /\ Last(Stored.answers).topic = <<>>

\* C19: Analogous never sets status finished; a turn in which the evaluator ran advances
\* the index by exactly one, marks the answered record graded and appends exactly one
\* record that awaits an answer
C19_NoFixedTermination ==
    [][ (template = 29 /\ db' # <<>>) =>
          /\ db'[1].status = "active"
          /\ chat_status' # "finished"
          /\ \A i \in 1..Len(events') : events'[i].op # "status"
          /\ Gens(events', "AnalogousEvaluator") # <<>> =>
                /\ HasState
                /\ Len(Gens(events', "AnalogousEvaluator")) = 1
                /\ db'[1].current_question_index = Stored.current_question_index + 1
                /\ Len(db'[1].answers) = Len(Stored.answers) + 1
                /\ db'[1].answers[Len(Stored.answers)].graded
                /\ db'[1].answers[Len(Stored.answers)].answer = inbound'
                /\ Last(db'[1].answers).waiting_for_answer
                /\ ~Last(db'[1].answers).graded
                /\ Last(db'[1].answers).assignment_index = db'[1].current_question_index ]_vars

\* two answers in a row were evaluated and a third assignment awaits its answer
C19_Witness ==
    /\ template = 29 /\ HasState
    /\ Gens(events, "AnalogousEvaluator") # <<>>
    /\ Stored.current_question_index = 2
    /\ Len(Stored.answers) = 3
    /\ Stored.status = "active"

-----------------------------------------------------------------------------
(* Properties of the progress cursor *)

\* C20: handling a message leaves current_question_index where it was or advances it by
\* exactly one, counted from 0 when the session is created; in Roleplay (27) and
\* Custom (25) it stays 0
C20_IndexMonotone ==
    [][ db' # <<>> =>
          LET before == IF HasState THEN Stored.current_question_index ELSE 0
              after  == db'[1].current_question_index
          IN  /\ after \in { before, before + 1 }
              /\ template \in { 25, 27 } => after = 0 ]_vars

\* an examination that advanced once and then handled an answer without advancing
C20_Witness ==
    /\ template = 12 /\ HasState
    /\ Stored.current_question_index = 1
    /\ Stored.follow_up_count > 0
    /\ Gens(events, "Evaluator") # <<>>

-----------------------------------------------------------------------------
(* Properties of the answers list *)

\* C21: handling a message changes answers only by adding records at the end: every
\* record that was stored before the message is stored unchanged, at the same
\* position, after it
C21_AppendOnly ==
    [][ HasState =>
          /\ db' # <<>>
          /\ Len(db'[1].answers) >= Len(Stored.answers)
          /\ \A i \in 1..Len(Stored.answers) : db'[1].answers[i] = Stored.answers[i] ]_vars

-----------------------------------------------------------------------------
(* Properties of load_or_create_state *)

-----------------------------------------------------------------------------
(* Properties of the score extractor *)

\* the report that update_chat_status was called with
SavedReport == events[1].work_summary

\* the grade that update_chat_status posted, <<>> when it posted none
PostedGrade == IF "grade" \in DOMAIN events[1] THEN << events[1].grade >> ELSE <<>>

\* the patterns, in priority order, whose leftmost match in the report has a
\* denominator above zero
ScoringPatterns(text) ==
    { p \in 1..3 :
        \E i \in 1..Len(text) :
            /\ MatchesAt(text, Patterns[p], i)
            /\ \A k \in 1..(i - 1) : ~MatchesAt(text, Patterns[p], k)
            /\ text[SkipWs(text, i + Len(Patterns[p])) + 2].n > 0 }

\* the numerator of the leftmost match of pattern p
NumeratorOf(text, p) ==
    LET i == CHOOSE a \in 1..Len(text) :
                /\ MatchesAt(text, Patterns[p], a)
                /\ \A k \in 1..(a - 1) : ~MatchesAt(text, Patterns[p], k)
    IN  text[SkipWs(text, i + Len(Patterns[p]))].n

\* C25: "**Total Score:** 7/10" gives 7, "Total Score: 7.5/10" gives 7.5,
\* "Total Score: 5/0"-like reports and reports without a match give no score; a score
\* is given exactly when some pattern's match has a nonzero denominator, and it is the
\* numerator of such a match rounded to two decimals
C25_ScoreExtractor ==
    (events # <<>>) =>
        /\ SavedReport = BoldLabel \o << Ws >> \o Fraction(7000, 10000) => PostedGrade = << 7000 >>
        /\ SavedReport = PlainLabel \o << Ws >> \o Fraction(7500, 10000) => PostedGrade = << 7500 >>
        /\ SavedReport = PlainLabel \o << Ws >> \o Fraction(7000, 0) => PostedGrade = <<>>
        /\ SavedReport \in { <<>>, << Sym("word") >> } => PostedGrade = <<>>
        /\ PostedGrade # <<>> <=> ScoringPatterns(SavedReport) # {}
        /\ PostedGrade # <<>> =>
              \E p \in ScoringPatterns(SavedReport) :
                  /\ PostedGrade[1] - NumeratorOf(SavedReport, p) \in -5..5
                  /\ PostedGrade[1] % 10 = 0
        /\ ub.grade = PostedGrade

\* a report whose numerator has three decimals was graded
C25_Witness ==
    /\ events # <<>>
    /\ SavedReport = PlainLabel \o << Ws >> \o Fraction(7456, 10000)
    /\ ub.grade = << 7460 >>

\* C25 as stated: the score given is the numerator itself
C25_Original ==
    (events # <<>> /\ PostedGrade # <<>>) =>
        \E p \in ScoringPatterns(SavedReport) : PostedGrade[1] = NumeratorOf(SavedReport, p)

\* the patterns that match somewhere in the report
MatchingPatterns(text) ==
    { p \in 1..3 : \E i \in 1..Len(text) : MatchesAt(text, Patterns[p], i) }

\* the least element of a non-empty set of pattern numbers
Least(ps) == CHOOSE a \in ps : \A b \in ps : a <= b

\* C26: the grade is decided in priority order bold, plain, localized, wherever the
\* forms stand in the report: it is the numerator (rounded to two decimals) of the
\* first pattern in that order whose match has a nonzero denominator, and there is
\* no grade when no pattern has such a match
C26_Priority ==
    (events # <<>>) =>
        PostedGrade =
            IF ScoringPatterns(SavedReport) = {} THEN <<>>
            ELSE << Round2(NumeratorOf(SavedReport, Least(ScoringPatterns(SavedReport)))) >>

\* a plain form stands before a bold form and the bold form decides
C26_Witness ==
    /\ events # <<>>
    /\ SavedReport = PlainLabel \o << Ws >> \o Fraction(7500, 10000) \o << Ws >>
                     \o BoldLabel \o << Ws >> \o Fraction(7000, 10000)
    /\ ub.grade = << 7000 >>

\* C26 as stated: the first pattern that matches decides alone, so a zero denominator
\* in its match means no grade
C26_Original ==
    (events # <<>> /\ MatchingPatterns(SavedReport) # {}) =>
        LET p == Least(MatchingPatterns(SavedReport))
        IN  PostedGrade = IF p \in ScoringPatterns(SavedReport)
                          THEN << Round2(NumeratorOf(SavedReport, p)) >>
                          ELSE <<>>

-----------------------------------------------------------------------------
(* Properties of the two endpoints *)

\* the step handles an evaluation request
Evaluating == \E output \in ApiReports : EvaluateChat(output)

\* the step handles a submitted message
Submitting == \E content \in CustomMessages : ProcessStudentMessage(content)

\* no record of the state holds an answer or a message of the student
NoCompletedTurn(state) ==
    \A i \in 1..Len(state.answers) :
        /\ Get(state.answers[i], "answer", <<>>) = <<>>
        /\ Get(state.answers[i], "user_message", <<>>) = <<>>

\* the generation calls among the effects
AllGens(evs) == SelectSeq(evs, LAMBDA e : e.op = "gen")

\* the updates of the session record among the effects
StatusWrites(evs) == SelectSeq(evs, LAMBDA e : e.op = "status")

\* the request was rejected
Rejected(evs) == evs # <<>> /\ Last(evs).op = "raise"

\* C23: an evaluation request for a session whose state holds no completed turn makes
\* no generation call
C23_ShortCircuit ==
    [][ (Evaluating /\ HasState /\ NoCompletedTurn(Stored)) => AllGens(events') = <<>> ]_vars

\* C24: an evaluation request leaves the persisted state as it was and saves no state;
\* what it writes is one update of the session record, with the report and status
\* finished; the routine of each of the six classes has no effect but its generation
C24_StateReadOnly ==
    [][ Evaluating =>
          /\ db' = db
          /\ Saves(events') = <<>>
          /\ Len(StatusWrites(events')) <= 1
          /\ \A i \in 1..Len(events') :
                events'[i].op = "status" =>
                    /\ events'[i].value = "finished"
                    /\ "work_summary" \in DOMAIN events'[i]
          /\ HasState =>
                \A id \in DOMAIN WorkflowRegistry, output \in ApiReports :
                    LET run == RunEvaluation(WorkflowRegistry[id], Stored,
                                             eval_block.eval_instructions,
                                             eval_block.eval_crit_json, output)
                    IN  \A i \in 1..Len(run.events) : run.events[i].op = "gen" ]_vars

\* a report was saved for a session with recorded turns that is still active
C24_Witness ==
    /\ HasState
    /\ Stored.answers # <<>>
    /\ Stored.status = "active"
    /\ ub.work_summary # <<>>
    /\ chat_status = "finished"
    /\ AllGens(events) # <<>>

\* C27: when no score can be extracted from the report the evaluation completes all
\* the same: the report is saved, the session status becomes finished, no grade is
\* written and the request returns the report
C27_ScoreMissIsNoError ==
    [][ (Evaluating /\ AllGens(events') # <<>>) =>
          LET report == Last(events').body.evaluation[1]
          IN  ExtractScore(report) = <<>> =>
                /\ Last(events').op = "return"
                /\ ub'.work_summary = << report >>
                /\ chat_status' = "finished"
                /\ ub'.grade = <<>>
                /\ \A i \in 1..Len(events') : "grade" \notin DOMAIN events'[i] ]_vars

\* the report "Total Score: 7/0" was saved without a grade
C27_Witness ==
    /\ events # <<>>
    /\ Last(events).op = "return"
    /\ ub.work_summary = << PlainLabel \o << Ws >> \o Fraction(7000, 0) >>
    /\ ub.grade = <<>>
    /\ chat_status = "finished"

\* the request names a configuration error: an unknown template, or an evaluation
\* without instructions or without criteria
ConfigurationError ==
    \/ template \notin DOMAIN WorkflowRegistry
    \/ Evaluating /\ eval_block.eval_instructions = <<>>
    \/ Evaluating /\ eval_block.eval_crit_json = <<>>

\* C28: a request with a configuration error is rejected, makes no generation call
\* and writes no grade and no status
C28_ConfigurationErrorsRejected ==
    [][ ((Evaluating \/ Submitting) /\ ConfigurationError) =>
          /\ Rejected(events')
          /\ AllGens(events') = <<>>
          /\ StatusWrites(events') = <<>> ]_vars

\* the request lacks nothing: the template is registered, and an evaluation has its
\* instructions, its criteria, a stored state and no grade yet
WellConfigured ==
    /\ template \in DOMAIN WorkflowRegistry
    /\ Evaluating => /\ eval_block.eval_instructions # <<>>
                     /\ eval_block.eval_crit_json # <<>>
                     /\ HasState
                     /\ ub.grade = <<>>

\* C29: for each registered template a submitted message reaches the workflow's
\* advance operation and an evaluation request reaches its evaluation routine
C29_RegistryResolves ==
    [][ ((Evaluating \/ Submitting) /\ WellConfigured) =>
          /\ ~Rejected(events')
          /\ Evaluating => AllGens(events') # <<>>
          /\ Submitting => Last(events').op = "return" ]_vars

-----------------------------------------------------------------------------
(* Properties of interleaved invocations *)

\* invocation i writes its state back in this step
Finishing(i) == inflight[i] # <<>> /\ inflight'[i] = <<>>

\* C30: invocations of one session are not kept apart, and the write of an invocation
\* stores the state that invocation read, with its own turn added, whatever another
\* invocation wrote in between: the persisted answers are the answers it read and one
\* record more, so the later write drops the turn of the earlier one
C30_LastWriteWins ==
    [][ \A i \in Invocations :
          Finishing(i) =>
              LET read == inflight[i][1]
              IN  /\ db' # <<>>
                  /\ Len(db'[1].answers) = Len(read.state.answers) + 1
                  /\ SubSeq(db'[1].answers, 1, Len(read.state.answers)) = read.state.answers
                  /\ Last(db'[1].answers).user_message = read.user_message ]_vars

\* two messages were answered and the persisted answers hold one of them
C30_Witness ==
    /\ budget = 0
    /\ \A i \in Invocations : inflight[i] = <<>>
    /\ HasState
    /\ Len(Stored.answers) = 1

-----------------------------------------------------------------------------
(* Properties of the order of effects within one invocation *)

\* the reads of the stored state among the effects
Loads(evs) == SelectSeq(evs, LAMBDA e : e.op = "load")

\* C31: the effects of handling one message, in program order (each call is awaited
\* before the next statement runs), hold one read of the state, which comes first, and
\* at most two generation calls
C31_GenerationCalls ==
    (events # <<>>) =>
        /\ events[1] = EvLoad
        /\ Len(Loads(events)) = 1
        /\ Len(AllGens(events)) <= 2

\* a FillGaps answer was evaluated and the next assignment generated: two calls
C31_Witness ==
    /\ template = 26
    /\ Len(AllGens(events)) = 2
    /\ events[1] = EvLoad

\* C32: in FillGaps (26), Roleplay (27) and Reflection (28) every write of the turn's
\* updates, a save of a state other than the freshly created one or an update of the
\* session status, comes after the response has been emitted
C32_WriteDeferred ==
    (template \in { 26, 27, 28 }) =>
        \A i \in 1..Len(events) :
            \/ events[i].op \notin { "save", "status" }
            \/ events[i].op = "save" /\ events[i].state = WorkflowState(specifications)
            \/ \E j \in 1..(i - 1) : events[j].op = "reply"

-----------------------------------------------------------------------------
(* Properties of sessions with failing calls *)

\* the message being handled is one whose read of the stored state fails
LoadFailed == \E m \in ExamMessages, v \in ExamVerdicts : LoadFails(m, v)

\* the effects write a fresh state
WritesFresh(evs) ==
    \E i \in 1..Len(evs) :
        evs[i].op = "save" /\ evs[i].state = WorkflowState(specifications)

\* C33: load_or_create_state persists a fresh state only when no state is stored:
\* when a state is stored and reading it fails, no fresh state is written over it
\* and the stored answers, index and status are not reset.
C33_FailedLoadKeepsState ==
    [][ LoadFailed =>
          /\ ~WritesFresh(events')
          /\ db' # <<>>
          /\ Len(db'[1].answers) >= Len(db[1].answers)
          /\ db'[1].current_question_index >= db[1].current_question_index ]_vars

\* the evaluator runs of the effects, as positions
EvaluatorRuns(evs) ==
    { p \in 1..Len(evs) : evs[p].op = "gen" /\ evs[p].agent = "Evaluator" }

\* C36: the Examination evaluator is only run for question index i when the record
\* of a presented question i is the last record of the stored answers, also after
\* a generation call failed in the middle of an earlier turn.
C36_EvaluatesPresentedQuestion ==
    [][ \A p \in EvaluatorRuns(events') :
          /\ db # <<>>
          /\ db[1].answers # <<>>
          /\ Last(db[1].answers).question_index = events'[p].instructions.question ]_vars

-----------------------------------------------------------------------------
(* Properties of termination and of the shape of the stored state *)

\* the messages an Examination session has handled
ExamHandled == ExamBudget(Len(specifications)) - budget

\* 1 + N*(k+1) for the question list and the follow-up budget of the session
ExamBound == 1 + Len(specifications) * (DefaultMaxFollowUps + 1)

\* C35: with messages handled one at a time and no call failing, an Examination
\* session over N questions with maxFollowUps k is finished after at most
\* 1 + N*(k+1) messages, whatever the evaluator's verdicts are.
C35_ExaminationTerminates ==
    (template = 12 /\ ExamHandled >= ExamBound) =>
        /\ chat_status = "finished"
        /\ db # <<>>
        /\ db[1].status = "finished"
        /\ db[1].max_follow_ups = DefaultMaxFollowUps

\* the longest session: the message that reaches the bound is the one that finishes
C35_Witness ==
    /\ template = 12
    /\ Len(specifications) = MaxQuestions
    /\ ExamHandled = ExamBound
    /\ StatusWrites(events) # <<>>
    /\ db[1].status = "finished"

\* the index a record carries: question_index in Examination, assignment_index in
\* FillGaps and Analogous
RecordIndex(rec) ==
    IF "question_index" \in DOMAIN rec THEN rec.question_index
    ELSE Get(rec, "assignment_index", -1)

\* C37: in Examination, FillGaps and Analogous every state stored at the end of a
\* message has currentIndex + 1 records while active and currentIndex records when
\* finished, and its i-th record (counted from 0) carries the index i.
C37_RecordsFollowIndex ==
    (template \in { 12, 26, 29 } /\ db # <<>>) =>
        /\ Len(db[1].answers) =
              IF db[1].status = "finished" THEN db[1].current_question_index
              ELSE db[1].current_question_index + 1
        /\ \A i \in 1..Len(db[1].answers) : RecordIndex(db[1].answers[i]) = i - 1

\* a FillGaps session that has finished with all its assignments recorded
C37_Witness ==
    /\ template = 26
    /\ db # <<>>
    /\ db[1].status = "finished"
    /\ Len(db[1].answers) = FillGapsAssignments
    /\ RecordIndex(Last(db[1].answers)) = FillGapsAssignments - 1

\* the messages a whole Reflection session has handled
ReflectionHandled == MaxSessionTurns - budget

\* the configured timebox of the session
ConfiguredTimebox == Get(FirstSpec(specifications), "timebox", <<>>)

SessionFinished == db # <<>> /\ db[1].status = "finished" /\ chat_status = "finished"

\* C38: handled one message at a time and with no call failing, a Reflection session
\* whose timebox holds "10" is finished after at most 9 messages, and one whose
\* timebox holds "20" but not "10" after at most 16, whatever the texts are.
C38_TimeboxTerminates ==
    /\ (HasDigits(ConfiguredTimebox, "10") /\ ReflectionHandled >= 9) => SessionFinished
    /\ ( /\ HasDigits(ConfiguredTimebox, "20")
         /\ ~HasDigits(ConfiguredTimebox, "10")
         /\ ReflectionHandled >= 16 ) => SessionFinished

\* a session with timebox "20" that the sixteenth message finishes
C38_Witness ==
    /\ HasDigits(ConfiguredTimebox, "20")
    /\ ReflectionHandled = 16
    /\ Len(db[1].answers) = 16
    /\ StatusWrites(events) # <<>>
    /\ SessionFinished

\* a session without a timebox that is still active after MaxSessionTurns messages
C38_NoBoundWithoutTimebox ==
    /\ ~HasDigits(ConfiguredTimebox, "10")
    /\ ~HasDigits(ConfiguredTimebox, "20")
    /\ ReflectionHandled = MaxSessionTurns
    /\ Len(db[1].answers) = MaxSessionTurns
    /\ db[1].status = "active"

-----------------------------------------------------------------------------
(* Properties of the instructions given to the Analogous tutor *)

\* the instruction kinds the tutor generations of the effects were given
TutorKinds(evs) ==
    { evs[p].instructions.kind :
        p \in { q \in 1..Len(evs) : evs[q].op = "gen" /\ evs[q].agent = "AnalogousTutor" } }

\* the stored session is waiting for the student to name a topic
WaitingForTopic ==
    /\ db # <<>>
    /\ db[1].answers # <<>>
    /\ Get(Last(db[1].answers), "waiting_for_topic", FALSE)

\* C39: on the first message of an Analogous session the tutor is given the
\* instructions to ask for a topic, and when the student then supplies a topic (more
\* than 2 words, no "?") it is given the instructions to present the first assignment.
C39_InstructionSelection ==
    [][ (template = 29 /\ TutorKinds(events') # {}) =>
          /\ (db = <<>>) => TutorKinds(events') = { "ask_topic" }
          /\ (WaitingForTopic /\ Len(inbound') > 2 /\ ~Contains(inbound', <<"?">>))
                => TutorKinds(events') = { "first_assignment" } ]_vars

\* the first clause alone
C39_FirstMessageAsksTopic ==
    [][ (template = 29 /\ TutorKinds(events') # {} /\ db = <<>>)
            => TutorKinds(events') = { "ask_topic" } ]_vars

\* the second clause alone
C39_TopicGivesFirstAssignment ==
    [][ ( /\ template = 29
          /\ TutorKinds(events') # {}
          /\ WaitingForTopic
          /\ Len(inbound') > 2
          /\ ~Contains(inbound', <<"?">>) )
            => TutorKinds(events') = { "first_assignment" } ]_vars

-----------------------------------------------------------------------------
(* Properties of interleaved Examination invocations *)

\* C34: also when two invocations of one session interleave their reads and writes,
\* the stored status never goes from finished back to active.
C34_FinishedIsFinal ==
    [][ (db # <<>> /\ db[1].status = "finished")
            => (db' # <<>> /\ db'[1].status = "finished") ]_vars

-----------------------------------------------------------------------------
(* Properties of a graded session *)

\* an evaluation request has saved its report and set the session status
Graded == ub.work_summary # <<>> /\ chat_status = "finished"

\* the step handles a message of the student
MessageHandled == inbound' # <<>> /\ budget' = budget - 1

\* C40: once an evaluation request has saved the report and set the session status
\* to finished, a later message changes neither the answers nor the index of the
\* workflow state and triggers no generation call.
C40_GradedIsFrozen ==
    [][ (Graded /\ MessageHandled) =>
          /\ AllGens(events') = <<>>
          /\ db'[1].answers = db[1].answers
          /\ db'[1].current_question_index = db[1].current_question_index ]_vars

====
